---- MODULE Spec2Model ----
(***************************************************************************)
(* Model of the tlgBot survey engine: the question graph                   *)
(* (services.QuestionManager), the session store                           *)
(* (services.UserStateManager, a map of *UserState behind a sync.RWMutex), *)
(* and the traversal engine (handlers.TelegramHandler, bot.TelegramBot).   *)
(*                                                                         *)
(* Every inbound update is handled by its own goroutine (main.startBot).   *)
(* A goroutine is a task slot with a program counter; one action is one    *)
(* step between two accesses to shared state (the store's lock, the map,   *)
(* a session field reached through a pointer, the transport, a sleep).     *)
(* Computation on locals and on the immutable graph is folded into the     *)
(* step that precedes it.                                                  *)
(*                                                                         *)
(* Strings that the code takes apart or concatenates (texts with the       *)
(* {name} placeholder, the answers summary) are sequences of tokens;       *)
(* labels, IDs and payloads are plain strings.  Sessions live in a heap    *)
(* and are referred to by pointer (index into heap, 0 = nil), as in Go.    *)
(***************************************************************************)
EXTENDS Integers, Sequences, FiniteSets, TLC

\* ------------------------------------------------------------------ bounds
NumUsers == 2
MaxTasks == 2
MaxEvents == 3
MaxOverlap == 1
MaxLog == 10
MaxRestartEvents == 5

Users == 1..NumUsers
Tasks == 1..MaxTasks

\* the messages a user can send: the command or the free text, and the
\* display name the update carries (bot.GetTelegramName).  "B" is also the
\* label of the second option of node name_q.
Messages == {
  [kind |-> "command", payload |-> "start", name |-> "Ann"],
  [kind |-> "command", payload |-> "start", name |-> "Bob"],
  [kind |-> "command", payload |-> "help", name |-> "Bob"],
  [kind |-> "text", payload |-> "Alice", name |-> "Ann"],
  [kind |-> "text", payload |-> "B", name |-> "Bob"] }

\* --------------------------------------------------------------- constants
DefaultDelayMs == 700
NoKeyboard == <<>>
NameToken == "{name}"
LocationAction == "get_location"
FinalQuestionID == "end"

\* ------------------------------------------------------------ graph values
Opt(text, next, action) == [Text |-> text, NextID |-> next, Action |-> action]

Question(id, text, messages, images, options, input, auto, autoDelay) ==
  [ID |-> id, Text |-> text, Messages |-> messages, Images |-> images,
   Options |-> options, ExternalLink |-> "", ExternalText |-> "",
   InputType |-> input, DelayMs |-> <<>>, AutoAdvance |-> auto,
   AutoAdvanceDelayMs |-> autoDelay]

\* map[string]Question built from a list of records (config.LoadQuestions)
MapOf(list) ==
  [id \in {list[i].ID : i \in 1..Len(list)} |->
     list[CHOOSE i \in 1..Len(list) : list[i].ID = id]]

\* spec.md section 8, scenario "linear flow"; the last node has a link
LinearGraph == MapOf(<<
  Question("start", <<>>, <<>>, <<>>,
           <<Opt("Continue", "q1", "")>>, "", FALSE, 0),
  Question("q1", <<"Q1">>, <<>>, <<>>,
           <<Opt("Yes", "end", ""), Opt("No", "end", "")>>, "", FALSE, 0),
  [Question("end", <<"Done">>, <<>>, <<>>, <<>>, "", FALSE, 0)
     EXCEPT !.ExternalLink = "http://x", !.ExternalText = "Site"] >>)

\* spec.md section 8, scenario "auto-advance chain"
ChainList == <<
  Question("start", <<"Go">>, <<>>, <<>>, <<Opt("", "mid", "")>>, "", TRUE, 10),
  Question("mid", <<"Mid">>, <<>>, <<>>, <<>>, "", FALSE, 0) >>

ChainGraph == MapOf(ChainList)

\* an auto-advance chain through a node with images and a message sequence,
\* then a menu that leads to a chain dead end, to a chain with a dangling
\* edge, to a node that does not exist, and to a terminal node that has both
\* a text and a message sequence
AutoList == <<
  [Question("start", <<"Hi ", NameToken>>, <<>>, <<>>,
            <<Opt("", "intro", ""), Opt("", "end", "")>>, "", TRUE, 0)
     EXCEPT !.ExternalLink = "http://x", !.ExternalText = "Site"],
  [Question("intro", <<>>, << <<"Welcome ", NameToken>>, <<"Pick">> >>,
            <<"a.png">>, <<Opt("Auto", "menu", "")>>, "", TRUE, 10)
     EXCEPT !.DelayMs = <<0>>],
  [Question("menu", <<"Menu">>, <<>>, <<>>,
            <<Opt("Auto", "hop", ""), Opt("Drift", "adrift", ""),
              Opt("Bad", "ghost", ""), Opt("End", "end", "")>>, "", FALSE, 0)
     EXCEPT !.ExternalLink = "http://x", !.ExternalText = "Site"],
  Question("hop", <<"Hop">>, <<>>, <<>>,
           <<Opt("", "dead", ""), Opt("", "menu", "")>>, "", TRUE, 0),
  Question("dead", <<"Dead">>, <<>>, <<"a.png", "", "b.png">>, <<>>, "", TRUE, 0),
  Question("adrift", <<>>, <<>>, <<"">>, <<Opt("", "ghost", "")>>, "", TRUE, 5),
  Question("end", <<"Done">>, << <<"Bye ", NameToken>> >>, <<>>, <<>>, "",
           FALSE, 0) >>

AutoGraph == MapOf(AutoList)

\* text capture with and without a continuation, a duplicated label, the
\* location action (on an option whose target is not in the graph), a link
\* without a label, a label without a link, and a message sequence that
\* ends with a keyboard
TextList == <<
  [Question("start", <<"What?">>, <<>>, <<>>,
            <<Opt("A", "name_q", ""), Opt("A", "end", ""),
              Opt("B", "note_q", ""), Opt("C", "lost_q", ""),
              Opt("L", "ghost", LocationAction)>>, "", FALSE, 0)
     EXCEPT !.ExternalLink = "http://x"],
  Question("name_q", <<"Name?">>, <<>>, <<>>,
           <<Opt("A", "end", ""), Opt("B", "start", "")>>, "text", FALSE, 0),
  [Question("note_q", <<>>, << <<"For ", NameToken>>, <<"Note?">> >>, <<>>,
            <<>>, "text", FALSE, 0)
     EXCEPT !.ExternalLink = "http://x", !.ExternalText = "Site"],
  Question("lost_q", <<"Lost?">>, <<>>, <<>>,
           <<Opt("A", "ghost", "")>>, "text", FALSE, 0),
  [Question("end", <<"Done ", NameToken>>, <<>>, <<>>, <<>>, "", FALSE, 0)
     EXCEPT !.ExternalText = "Site"] >>

TextGraph == MapOf(TextList)

Graphs == {LinearGraph, ChainGraph, AutoGraph, TextGraph}
\* configured start node IDs (config.StartQuestionID); "nowhere" is in no graph
StartIDs == {"start", "nowhere"}

\* ---------------------------------------------------------- pure functions
GetQuestion_DefaultStart(qs, id) ==
  IF id \in DOMAIN qs THEN [ok |-> TRUE, q |-> qs[id]]
  ELSE IF "start" \in DOMAIN qs THEN [ok |-> TRUE, q |-> qs["start"]]
  ELSE [ok |-> FALSE]

\* QuestionManager.GetQuestion: the node, or an error when the ID is unknown
GetQuestion(qs, id) ==
  IF id \in DOMAIN qs THEN [ok |-> TRUE, q |-> qs[id]] ELSE [ok |-> FALSE]

\* Question.GetDisplayText: Text, else the last message, else ""
GetDisplayText(q) ==
  IF q.Text # <<>> THEN q.Text
  ELSE IF Len(q.Messages) > 0 THEN q.Messages[Len(q.Messages)]
  ELSE <<>>

\* Question.GetDelayMs: the node's own delay when set, else the default
GetDelayMs(q, defaultDelay) ==
  IF q.DelayMs # <<>> THEN q.DelayMs[1] ELSE defaultDelay

HasKeyboard_IgnoreAuto(q) ==
  Len(q.Options) > 0 \/ (q.ExternalLink # "" /\ q.ExternalText # "")

\* Question.HasKeyboard
HasKeyboard(q) ==
  ~q.AutoAdvance
  /\ (Len(q.Options) > 0 \/ (q.ExternalLink # "" /\ q.ExternalText # ""))

BuildKeyboard_LinkWithoutLabel(q) ==
  IF ~HasKeyboard(q) THEN NoKeyboard
  ELSE [i \in 1..Len(q.Options) |->
          <<[text |-> q.Options[i].Text, data |-> q.Options[i].Text]>>]
       \o (IF q.ExternalLink # ""
           THEN << <<[text |-> q.ExternalText, url |-> q.ExternalLink]>> >>
           ELSE <<>>)

\* TelegramBot.BuildKeyboard: one row per option, then the link row
BuildKeyboard(q) ==
  IF ~HasKeyboard(q) THEN NoKeyboard
  ELSE [i \in 1..Len(q.Options) |->
          <<[text |-> q.Options[i].Text, data |-> q.Options[i].Text]>>]
       \o (IF q.ExternalLink # "" /\ q.ExternalText # ""
           THEN << <<[text |-> q.ExternalText, url |-> q.ExternalLink]>> >>
           ELSE <<>>)

\* TelegramBot.replaceNamePlaceholder: strings.ReplaceAll(text, "{name}", name)
replaceNamePlaceholder(text, name) ==
  [i \in 1..Len(text) |-> IF text[i] = NameToken THEN name ELSE text[i]]

\* the orders in which a range over a Go map may visit its keys
RECURSIVE Orders(_)
Orders(S) ==
  IF S = {} THEN {<<>>}
  ELSE UNION {{<<k>> \o rest : rest \in Orders(S \ {k})} : k \in S}

RECURSIVE SummaryLines(_, _)
SummaryLines(answers, order) ==
  IF order = <<>> THEN <<>>
  ELSE <<"* ">> \o order[1] \o <<": ", answers[order[1]], "\n">>
       \o SummaryLines(answers, Tail(order))

\* TelegramBot.generateAnswersSummary: every text the map iteration can give
generateAnswersSummary(answers) ==
  IF DOMAIN answers = {} THEN {<<>>}
  ELSE {<<"\n\nYour answers:\n">> \o SummaryLines(answers, o) :
          o \in Orders(DOMAIN answers)}

\* TelegramBot.buildMediaGroup: the non-empty image paths, in order
buildMediaGroup(images) == SelectSeq(images, LAMBDA p : p # "")

\* models.NewUserState
NewUserState(name) ==
  [CurrentQuestionID |-> "", Answers |-> <<>>, Name |-> name]

AddAnswer_KeepFirst(answers, question, answer) ==
  [k \in DOMAIN answers \cup {question} |->
     IF k \in DOMAIN answers THEN answers[k] ELSE answer]

\* UserState.AddAnswer: us.Answers[question] = answer
AddAnswer(answers, question, answer) ==
  [k \in DOMAIN answers \cup {question} |->
     IF k = question THEN answer ELSE answers[k]]

\* the loop over currentQ.Options from index i on: the index of the first
\* option whose Text equals optionText, 0 when the loop runs out
RECURSIVE ScanOptions(_, _, _)
ScanOptions(options, optionText, i) ==
  IF i > Len(options) THEN 0
  ELSE IF options[i].Text = optionText THEN i
  ELSE ScanOptions(options, optionText, i + 1)

\* QuestionManager.GetNextQuestion
GetNextQuestion(qs, currentQuestionID, optionText) ==
  IF ~GetQuestion(qs, currentQuestionID).ok THEN [ok |-> FALSE]
  ELSE LET options == qs[currentQuestionID].Options
           i == ScanOptions(options, optionText, 1)
       IN IF i = 0 THEN [ok |-> FALSE]
          ELSE GetQuestion(qs, options[i].NextID)

FindOption_Last(q, optionText) ==
  IF \E i \in 1..Len(q.Options) : q.Options[i].Text = optionText
  THEN CHOOSE i \in 1..Len(q.Options) :
         /\ q.Options[i].Text = optionText
         /\ \A j \in (i + 1)..Len(q.Options) : q.Options[j].Text # optionText
  ELSE 0

FindOption_Default(q, optionText) ==
  IF \E i \in 1..Len(q.Options) : q.Options[i].Text = optionText
  THEN CHOOSE i \in 1..Len(q.Options) :
         /\ q.Options[i].Text = optionText
         /\ \A j \in 1..(i - 1) : q.Options[j].Text # optionText
  ELSE IF Len(q.Options) > 0 THEN 1 ELSE 0

\* the option scan of ProcessOptionAnswer: index of the first option whose
\* Text equals the payload, 0 when there is none
FindOption(q, optionText) ==
  IF \E i \in 1..Len(q.Options) : q.Options[i].Text = optionText
  THEN CHOOSE i \in 1..Len(q.Options) :
         /\ q.Options[i].Text = optionText
         /\ \A j \in 1..(i - 1) : q.Options[j].Text # optionText
  ELSE 0

\* option labels a callback can carry: the labels of the graph and one more
Labels(qs) ==
  UNION {{qs[id].Options[i].Text : i \in 1..Len(qs[id].Options)} :
           id \in DOMAIN qs}
  \cup {"Maybe"}

\* ------------------------------------------------------------------- state
VARIABLES
  boot,       \* the process's startup: environment, files, what main did
  questions,  \* QuestionManager.questions, fixed at construction
  startID,    \* Config.StartQuestionID
  reliable,   \* TRUE: the transport never fails; FALSE: any send may fail
  states,     \* UserStateManager.states: user -> pointer (0 = no entry)
  heap,       \* the UserState objects allocated so far
  mu,         \* UserStateManager.mu: writer (0 = none) and set of readers
  tasks,      \* the handler goroutines
  nEvents,    \* number of updates taken from the updates channel
  nOverlap    \* ... of them taken while an earlier handler was still running

vars ==
  <<boot, questions, startID, reliable, states, heap, mu, tasks, nEvents,
    nOverlap>>

IdleTask ==
  [pc |-> "idle", user |-> 0, kind |-> "", payload |-> "", name |-> "",
   pre |-> <<>>, us |-> 0, found |-> 0, cur |-> "", sel |-> 0, next |-> "",
   key |-> <<>>, q |-> "", i |-> 0, out |-> <<>>, err |-> ""]

\* what the store holds for a user, as one value (<<>> when no session)
Session(u) == IF states[u] = 0 THEN <<>> ELSE <<heap[states[u]]>>

\* ----------------------------------------------------------------- startup
\* the two main functions of the repository: cmd/telegram-bot/main.go, and
\* the one that goes through initializeBot
CmdMain == "cmd/telegram-bot/main.go"
InitMain == "initializeBot"
Mains == {CmdMain, InitMain}

\* the path cmd/telegram-bot/main.go hands to LoadQuestions
DefaultQuestionsPath == "configs/questions.json"
CustomQuestionsPath == "my-questions.json"
DefaultStartQuestionID == "start"

\* record lists a questions file can decode to: two that load, an empty
\* one, one with a record without ID, one with a repeated ID
NoIDList == <<
  Question("start", <<"Hi">>, <<>>, <<>>, <<Opt("Go", "end", "")>>, "", FALSE, 0),
  Question("", <<"Anon">>, <<>>, <<>>, <<>>, "", FALSE, 0) >>

DuplicateList == <<
  Question("start", <<"First">>, <<>>, <<>>, <<>>, "", FALSE, 0),
  Question("end", <<"Done">>, <<>>, <<>>, <<>>, "", FALSE, 0),
  Question("start", <<"Second">>, <<>>, <<>>, <<>>, "", FALSE, 0) >>

\* what os.ReadFile and json.Unmarshal can meet at a path: no file, a file
\* that is not JSON, a file holding a list of records
File(list) == [kind |-> "json", list |-> list]
NoFile == [kind |-> "missing", list |-> <<>>]
NotJSON == [kind |-> "garbage", list |-> <<>>]
FileContents ==
  {NoFile, NotJSON, File(<<>>), File(NoIDList), File(DuplicateList),
   File(AutoList), File(TextList)}

\* the environment of the process ("" = variable unset)
Environments ==
  [TELEGRAM_TOKEN : {"", "token"},
   START_QUESTION_ID : {"", "nowhere"},
   QUESTIONS_FILE_PATH : {"", CustomQuestionsPath}]

\* config.getEnvOrDefault
getEnvOrDefault(env, envVar, defaultValue) ==
  IF env[envVar] # "" THEN env[envVar] ELSE defaultValue

\* config.LoadFromEnv (DELAY_MS unset; GoogleCreds and SheetID play no part)
LoadFromEnv(env) ==
  IF env.TELEGRAM_TOKEN = ""
  THEN [ok |-> FALSE,
        err |-> "TELEGRAM_TOKEN environment variable is required"]
  ELSE [ok |-> TRUE,
        cfg |-> [TelegramToken |-> env.TELEGRAM_TOKEN,
                 StartQuestionID |->
                   getEnvOrDefault(env, "START_QUESTION_ID",
                                   DefaultStartQuestionID),
                 DelayMs |-> DefaultDelayMs,
                 QuestionsFilePath |-> ""]]

\* Config.Validate: "" when the configuration is accepted
Validate(cfg) ==
  IF cfg.TelegramToken = "" THEN "telegram token is required"
  ELSE IF cfg.StartQuestionID = "" THEN "start question ID is required"
  ELSE IF cfg.DelayMs < 0 THEN "delay must be non-negative"
  ELSE ""

RECURSIVE LoadLoop_LastWins(_, _, _)
LoadLoop_LastWins(list, i, qMap) ==
  IF i > Len(list) THEN [ok |-> TRUE, q |-> qMap]
  ELSE IF list[i].ID = ""
  THEN [ok |-> FALSE, err |-> "question has empty ID"]
  ELSE LoadLoop_LastWins(list, i + 1,
         [id \in DOMAIN qMap \cup {list[i].ID} |->
            IF id = list[i].ID THEN list[i] ELSE qMap[id]])

\* config.LoadQuestions, the loop "Convert to map and validate"
RECURSIVE LoadLoop(_, _, _)
LoadLoop(list, i, qMap) ==
  IF i > Len(list) THEN [ok |-> TRUE, q |-> qMap]
  ELSE IF list[i].ID = ""
  THEN [ok |-> FALSE, err |-> "question has empty ID"]
  ELSE IF list[i].ID \in DOMAIN qMap
  THEN [ok |-> FALSE, err |-> "duplicate question ID"]
  ELSE LoadLoop(list, i + 1,
         [id \in DOMAIN qMap \cup {list[i].ID} |->
            IF id = list[i].ID THEN list[i] ELSE qMap[id]])

\* config.LoadQuestions(filename), given what the file system holds
LoadQuestions(filename, disk) ==
  IF filename = ""
  THEN [ok |-> FALSE, err |-> "questions file path cannot be empty"]
  ELSE IF filename \notin DOMAIN disk \/ disk[filename].kind = "missing"
  THEN [ok |-> FALSE, err |-> "failed to read questions file"]
  ELSE IF disk[filename].kind # "json"
  THEN [ok |-> FALSE, err |-> "failed to unmarshal questions"]
  ELSE IF Len(disk[filename].list) = 0
  THEN [ok |-> FALSE, err |-> "no questions found"]
  ELSE LoadLoop(disk[filename].list, 1, <<>>)

\* the path main gives to LoadQuestions
QuestionsPath(main, env, cfg) ==
  IF main = CmdMain THEN DefaultQuestionsPath ELSE cfg.QuestionsFilePath

NoPath == "<none>"

\* the components built directly from a graph value and a start node ID, as
\* the tests of the handlers and of the bot do
Constructed ==
  [phase |-> "up", main |-> "", path |-> NoPath, err |-> "",
   env |-> [TELEGRAM_TOKEN |-> "", START_QUESTION_ID |-> "",
            QUESTIONS_FILE_PATH |-> ""],
   disk |-> [p \in {DefaultQuestionsPath, CustomQuestionsPath} |-> NoFile]]

Init ==
  /\ boot = Constructed
  /\ questions \in Graphs
  /\ startID \in StartIDs
  /\ reliable \in BOOLEAN
  /\ states = [u \in Users |-> 0]
  /\ heap = <<>>
  /\ mu = [w |-> 0, r |-> {}]
  /\ tasks = [t \in Tasks |-> IdleTask]
  /\ nEvents = 0
  /\ nOverlap = 0

\* ------------------------------------------------------------ the RWMutex
CanLock_NoExclusion(m) == TRUE

\* sync.RWMutex.Lock succeeds when nobody holds the lock
CanLock(m) == m.w = 0 /\ m.r = {}

CanRLock_IgnoreWriter(m) == TRUE

\* sync.RWMutex.RLock succeeds when no writer holds the lock
CanRLock(m) == m.w = 0

\* ------------------------------------------------------- handler plumbing
Active(tk) == tk.pc \notin {"idle", "done"}

\* the handler returns; err is what it logged ("" when it logged nothing)
Finish(tk, err) ==
  [tk EXCEPT !.pc = "done", !.err = err, !.name = "", !.us = 0, !.found = 0,
             !.cur = "", !.sel = 0, !.next = "", !.key = <<>>, !.q = "", !.i = 0]

Goto(tk, pc) == [tk EXCEPT !.pc = pc]

Emit(tk, e) == [tk EXCEPT !.out = Append(@, e)]

\* a send for node q that the transport refused: the handler logs err and
\* returns (every caller returns the error it gets)
Fail(tk, q, err) ==
  Finish(Emit(tk, [kind |-> "fail", to |-> tk.user, node |-> q]), err)

\* the updates a user can cause
Events(qs) ==
  Messages \cup [kind : {"callback"}, payload : Labels(qs), name : {""}]

\* HandleAutoAdvance's first test, made when ProcessQuestion has returned nil
AfterQuestion(tk) ==
  IF questions[tk.q].AutoAdvance THEN Goto(tk, "aa_sleep") ELSE Finish(tk, "")

SendText_TextFirst(tk) ==
  LET q == questions[tk.q] IN
  IF q.Text # <<>> THEN Goto(tk, "pq_text")
  ELSE IF Len(q.Messages) > 0 THEN [tk EXCEPT !.pc = "pq_msg", !.i = 1]
  ELSE AfterQuestion(tk)

\* ProcessQuestion from "Send messages" on
SendText(tk) ==
  LET q == questions[tk.q] IN
  IF Len(q.Messages) > 0 THEN [tk EXCEPT !.pc = "pq_msg", !.i = 1]
  ELSE IF q.Text # <<>> THEN Goto(tk, "pq_text")
  ELSE AfterQuestion(tk)

\* what SendImages puts on the wire: nothing for an empty path or group
ImagesToSend(images) ==
  IF Len(images) > 1 THEN buildMediaGroup(images)
  ELSE IF Len(images) = 1 /\ images[1] # "" THEN images
  ELSE <<>>

MoveTo_EmitFirst(tk, nextQuestionID) ==
  IF GetQuestion(questions, nextQuestionID).ok
  THEN [tk EXCEPT !.pc = "pq_get", !.q = nextQuestionID,
                  !.next = nextQuestionID]
  ELSE Finish(tk, "failed to get next question")

\* moveToNextQuestion up to the store update (bot and handler versions agree)
MoveTo(tk, nextQuestionID) ==
  IF GetQuestion(questions, nextQuestionID).ok
  THEN [tk EXCEPT !.pc = "upd_lock", !.next = nextQuestionID]
  ELSE Finish(tk, "failed to get next question")

Ingest_CallbackCreates(t) ==
  /\ boot.phase = "up"
  /\ ~Active(tasks[t])
  /\ \A o \in 1..(t - 1) : Active(tasks[o])
  /\ nEvents < MaxEvents
  /\ \E u \in Users, ev \in Events(questions) :
       tasks' = [o \in Tasks |->
         IF o = t
         THEN [IdleTask EXCEPT !.user = u, !.name = ev.name, !.kind = ev.kind,
                 !.payload = ev.payload, !.pre = Session(u),
                 !.pc = "goc_lock"]
         ELSE IF Active(tasks[o]) THEN tasks[o] ELSE IdleTask]
  /\ nEvents' = nEvents + 1
  /\ IF \E o \in Tasks : Active(tasks[o])
     THEN nOverlap < MaxOverlap /\ nOverlap' = nOverlap + 1
     ELSE nOverlap' = nOverlap
  /\ UNCHANGED <<boot, questions, startID, reliable, states, heap, mu>>

\* ------------------------------------------------------------- data races
\* Session fields are read and written through the pointer, outside the
\* store's lock, by handleTextInput, startConversation, ProcessOptionAnswer,
\* ProcessAnswer and ProcessQuestion.  Two such accesses by handlers of one
\* user, one of them a write, with no lock operation between them, are a
\* data race; in the model they race when both steps are pending at once.

\* the session the pending step of a handler writes
Target(tk) == IF tk.pc = "upd_body" THEN tk.found ELSE tk.us

\* the steps that write CurrentQuestionID (a two-word string header)
PosWriters == {"sc_write", "upd_body"}

\* a string whose pointer and length come from two different writes: it is
\* the ID of no node
TornID == "<torn>"

\* the ID a pending writer assigns: StartQuestionID in startConversation,
\* the next node's ID in UpdateCurrentQuestion
Writes(tk) == IF tk.pc = "sc_write" THEN startID ELSE tk.next

\* some other handler's pending step writes another string than id into the
\* session of t (two headers of one content cannot mix into a third)
RacingWrite(t, id) ==
  /\ tasks[t].us # 0
  /\ \E o \in Tasks \ {t} :
       /\ tasks[o].pc \in PosWriters
       /\ Target(tasks[o]) = tasks[t].us
       /\ Writes(tasks[o]) # id

\* what a read of CurrentQuestionID can give: the value, or under a race a
\* torn one
ReadPosition(t) ==
  {heap[tasks[t].us].CurrentQuestionID}
  \cup (IF RacingWrite(t, heap[tasks[t].us].CurrentQuestionID)
        THEN {TornID} ELSE {})

\* a torn read of a string that was "" can pair the nil pointer with the new
\* length, and using it faults
TornFault(t) ==
  RacingWrite(t, "") /\ heap[tasks[t].us].CurrentQuestionID = ""

\* what a racing write of CurrentQuestionID can leave
WritePosition(t, id) ==
  {id} \cup (IF \E o \in Tasks \ {t} :
                   /\ tasks[o].pc \in PosWriters
                   /\ Target(tasks[o]) = Target(tasks[t])
                   /\ "sc_write" \in {tasks[o].pc, tasks[t].pc}
                   /\ Writes(tasks[o]) # id
             THEN {TornID} ELSE {})

\* AddAnswer assigns to the Answers map and generateAnswersSummary ranges
\* over it; the Go runtime ends the process ("fatal error: concurrent map
\* writes", "concurrent map iteration and map write") when it catches two
\* of them at once
MapRace(t) ==
  \E o \in Tasks \ {t} :
    /\ tasks[o].us = tasks[t].us /\ tasks[t].us # 0
    /\ \/ tasks[o].pc = "pa_write" /\ tasks[t].pc = "pa_write"
       \/ /\ {tasks[o].pc, tasks[t].pc} = {"pa_write", "pq_text"}
          /\ \A x \in {o, t} :
               tasks[x].pc = "pq_text" => tasks[x].q = FinalQuestionID

\* the process is gone, and every goroutine with it
Crash == [o \in Tasks |-> [tasks[o] EXCEPT !.pc = "fatal"]]

Ingest_PerUserQueue(t) ==
  /\ boot.phase = "up"
  /\ ~Active(tasks[t])
  /\ \A o \in 1..(t - 1) : Active(tasks[o])
  /\ nEvents < MaxEvents
  /\ \E u \in Users, ev \in Events(questions) :
       /\ \A o \in Tasks : Active(tasks[o]) => tasks[o].user # u
       /\ tasks' = [o \in Tasks |->
            IF o = t
            THEN [IdleTask EXCEPT !.user = u, !.name = ev.name,
                    !.kind = ev.kind, !.payload = ev.payload,
                    !.pre = Session(u),
                    !.pc = IF ev.kind = "callback" THEN "cb_get"
                           ELSE "goc_lock"]
            ELSE IF Active(tasks[o]) THEN tasks[o] ELSE IdleTask]
  /\ nEvents' = nEvents + 1
  /\ IF \E o \in Tasks : Active(tasks[o])
     THEN nOverlap < MaxOverlap /\ nOverlap' = nOverlap + 1
     ELSE nOverlap' = nOverlap
  /\ UNCHANGED <<boot, questions, startID, reliable, states, heap, mu>>

\* startBot: one update is received and its handler goroutine is started in
\* the first free slot; the records of handlers that have returned are dropped
Ingest(t) ==
  /\ boot.phase = "up"
  /\ ~Active(tasks[t])
  /\ \A o \in 1..(t - 1) : Active(tasks[o])
  /\ nEvents < MaxEvents
  /\ \E u \in Users, ev \in Events(questions) :
       tasks' = [o \in Tasks |->
         IF o = t
         THEN [IdleTask EXCEPT !.user = u, !.name = ev.name, !.kind = ev.kind,
                 !.payload = ev.payload, !.pre = Session(u),
                 !.pc = IF ev.kind = "callback" THEN "cb_get" ELSE "goc_lock"]
         ELSE IF Active(tasks[o]) THEN tasks[o] ELSE IdleTask]
  /\ nEvents' = nEvents + 1
  /\ IF \E o \in Tasks : Active(tasks[o])
     THEN nOverlap < MaxOverlap /\ nOverlap' = nOverlap + 1
     ELSE nOverlap' = nOverlap
  /\ UNCHANGED <<boot, questions, startID, reliable, states, heap, mu>>

\* HandleMessage -> GetOrCreateUserState: Lock, then state, exists := states[id]
GocLock(t) ==
  /\ tasks[t].pc = "goc_lock"
  /\ CanLock(mu)
  /\ mu' = [mu EXCEPT !.w = t]
  /\ tasks' = [tasks EXCEPT ![t] =
       [@ EXCEPT !.pc = "goc_body", !.found = states[tasks[t].user]]]
  /\ UNCHANGED <<boot, questions, startID, reliable, states, heap, nEvents, nOverlap>>

\* HandleMessage after GetOrCreateUserState has returned userState; a direct
\* caller goes on to AddAnswer
Dispatch(tk) ==
  IF tk.kind = "answer" THEN Goto(tk, "pa_write")
  ELSE IF tk.kind = "create" THEN Finish(tk, "")
  ELSE IF tk.kind = "command"
  THEN IF tk.payload = "start"
       THEN IF GetQuestion(questions, startID).ok
            THEN Goto(tk, "sc_write")
            ELSE Finish(tk, "failed to get start question")
       ELSE Finish(tk, "unknown command")
  ELSE Goto(tk, "ti_read")

GocBody_NoStore(t) ==
  LET tk == tasks[t]
      ptr == IF tk.found = 0 THEN Len(heap) + 1 ELSE tk.found
  IN
  /\ tk.pc = "goc_body"
  /\ heap' = IF tk.found = 0 THEN Append(heap, NewUserState(tk.name)) ELSE heap
  /\ states' = states
  /\ mu' = [mu EXCEPT !.w = 0]
  /\ tasks' = [tasks EXCEPT ![t] =
       Dispatch([tk EXCEPT !.us = ptr, !.found = 0, !.name = ""])]
  /\ UNCHANGED <<boot, questions, startID, reliable, nEvents, nOverlap>>

GocBody_Rename(t) ==
  LET tk == tasks[t]
      ptr == IF tk.found = 0 THEN Len(heap) + 1 ELSE tk.found
  IN
  /\ tk.pc = "goc_body"
  /\ heap' = IF tk.found = 0 THEN Append(heap, NewUserState(tk.name))
             ELSE [heap EXCEPT ![tk.found].Name = tk.name]
  /\ states' = IF tk.found = 0 THEN [states EXCEPT ![tk.user] = ptr] ELSE states
  /\ mu' = [mu EXCEPT !.w = 0]
  /\ tasks' = [tasks EXCEPT ![t] =
       Dispatch([tk EXCEPT !.us = ptr, !.found = 0, !.name = ""])]
  /\ UNCHANGED <<boot, questions, startID, reliable, nEvents, nOverlap>>

\* GetOrCreateUserState: create and store when absent, Unlock, return
GocBody(t) ==
  LET tk == tasks[t]
      ptr == IF tk.found = 0 THEN Len(heap) + 1 ELSE tk.found
  IN
  /\ tk.pc = "goc_body"
  /\ heap' = IF tk.found = 0 THEN Append(heap, NewUserState(tk.name)) ELSE heap
  /\ states' = IF tk.found = 0 THEN [states EXCEPT ![tk.user] = ptr] ELSE states
  /\ mu' = [mu EXCEPT !.w = 0]
  /\ tasks' = [tasks EXCEPT ![t] =
       Dispatch([tk EXCEPT !.us = ptr, !.found = 0, !.name = ""])]
  /\ UNCHANGED <<boot, questions, startID, reliable, nEvents, nOverlap>>

TiRead_NoInputCheck(t) ==
  LET tk == tasks[t]
      id == heap[tk.us].CurrentQuestionID
      res == GetQuestion(questions, id)
  IN
  /\ tk.pc = "ti_read"
  /\ tasks' = [tasks EXCEPT ![t] =
       IF id = "" THEN Finish(tk, "")
       ELSE IF ~res.ok THEN Finish(tk, "failed to get current question")
       ELSE [tk EXCEPT !.pc = "pa_get", !.cur = id]]
  /\ UNCHANGED <<boot, questions, startID, reliable, states, heap, mu, nEvents, nOverlap>>

\* handleTextInput: read userState.CurrentQuestionID, look the node up
TiRead(t) ==
  LET tk == tasks[t] IN
  /\ tk.pc = "ti_read"
  /\ \/ \E id \in ReadPosition(t) :
          LET res == GetQuestion(questions, id) IN
          tasks' = [tasks EXCEPT ![t] =
            IF id = "" THEN Finish(tk, "")
            ELSE IF ~res.ok THEN Finish(tk, "failed to get current question")
            ELSE IF res.q.InputType = "" THEN Finish(tk, "")
            ELSE [tk EXCEPT !.pc = "pa_get", !.cur = id]]
     \/ TornFault(t) /\ tasks' = Crash
  /\ UNCHANGED <<boot, questions, startID, reliable, states, heap, mu, nEvents, nOverlap>>

ScWrite_KeepPosition(t) ==
  LET tk == tasks[t] IN
  /\ tk.pc = "sc_write"
  /\ heap' = IF heap[tk.us].CurrentQuestionID = ""
             THEN [heap EXCEPT ![tk.us].CurrentQuestionID = startID]
             ELSE heap
  /\ tasks' = [tasks EXCEPT ![t] = Goto(tk, "set_lock")]
  /\ UNCHANGED <<boot, questions, startID, reliable, states, mu, nEvents, nOverlap>>

ScWrite_ClearAnswers(t) ==
  LET tk == tasks[t] IN
  /\ tk.pc = "sc_write"
  /\ heap' = [heap EXCEPT ![tk.us].CurrentQuestionID = startID,
                          ![tk.us].Answers = <<>>]
  /\ tasks' = [tasks EXCEPT ![t] = Goto(tk, "set_lock")]
  /\ UNCHANGED <<boot, questions, startID, reliable, states, mu, nEvents, nOverlap>>

\* startConversation: userState.CurrentQuestionID = StartQuestionID
ScWrite(t) ==
  LET tk == tasks[t] IN
  /\ tk.pc = "sc_write"
  /\ \E id \in WritePosition(t, startID) :
       heap' = [heap EXCEPT ![tk.us].CurrentQuestionID = id]
  /\ tasks' = [tasks EXCEPT ![t] = Goto(tk, "set_lock")]
  /\ UNCHANGED <<boot, questions, startID, reliable, states, mu, nEvents, nOverlap>>

\* SetUserState: Lock
SetLock(t) ==
  /\ tasks[t].pc = "set_lock"
  /\ CanLock(mu)
  /\ mu' = [mu EXCEPT !.w = t]
  /\ tasks' = [tasks EXCEPT ![t] = Goto(@, "set_body")]
  /\ UNCHANGED <<boot, questions, startID, reliable, states, heap, nEvents, nOverlap>>

\* who called SetUserState: startConversation goes on to ProcessQuestion
\* with the start node; a direct caller gets control back
AfterSet(tk) ==
  IF tk.kind = "set" THEN Finish(tk, "")
  ELSE [tk EXCEPT !.pc = "pq_get", !.q = startID]

SetBody_AllUsers(t) ==
  LET tk == tasks[t] IN
  /\ tk.pc = "set_body"
  /\ states' = [u \in Users |-> tk.us]
  /\ mu' = [mu EXCEPT !.w = 0]
  /\ tasks' = [tasks EXCEPT ![t] = AfterSet(tk)]
  /\ UNCHANGED <<boot, questions, startID, reliable, heap, nEvents, nOverlap>>

SetBody_Forget(t) ==
  LET tk == tasks[t] IN
  /\ tk.pc = "set_body"
  /\ states' = [states EXCEPT ![tk.user] = 0]
  /\ mu' = [mu EXCEPT !.w = 0]
  /\ tasks' = [tasks EXCEPT ![t] = AfterSet(tk)]
  /\ UNCHANGED <<boot, questions, startID, reliable, heap, nEvents, nOverlap>>

\* SetUserState: states[userID] = state, Unlock
SetBody(t) ==
  LET tk == tasks[t] IN
  /\ tk.pc = "set_body"
  /\ states' = [states EXCEPT ![tk.user] = tk.us]
  /\ mu' = [mu EXCEPT !.w = 0]
  /\ tasks' = [tasks EXCEPT ![t] = AfterSet(tk)]
  /\ UNCHANGED <<boot, questions, startID, reliable, heap, nEvents, nOverlap>>

\* the four call sites of GetUserState
GetSites == {"cb_get", "poa_get", "pa_get", "pq_get"}

\* what the caller does with the pointer GetUserState returned
AfterGet(tk, ptr) ==
  IF ptr = 0 THEN Finish(tk, "user state not found")
  ELSE LET tu == [tk EXCEPT !.us = ptr] IN
       CASE tk.pc = "cb_get" -> Goto(tu, "poa_get")
         [] tk.pc = "poa_get" -> Goto(tu, "poa_read")
         [] tk.pc = "pa_get" -> Goto(tu, "pa_read")
         [] tk.pc = "pq_get" ->
              IF ImagesToSend(questions[tk.q].Images) # <<>>
              THEN Goto(tu, "pq_img") ELSE SendText(tu)

\* GetUserState: RLock, read states[userID], RUnlock, return.  The critical
\* section is one read of the map, so the three are one step, taken only
\* when RLock can succeed.  (HandleCallbackQuery first acknowledges the
\* callback; a failure there is logged and ignored.)
GetUserState(t) ==
  LET tk == tasks[t] IN
  /\ tk.pc \in GetSites
  /\ CanRLock(mu)
  /\ tasks' = [tasks EXCEPT ![t] = AfterGet(tk, states[tk.user])]
  /\ UNCHANGED <<boot, questions, startID, reliable, states, heap, mu, nEvents, nOverlap>>

\* ProcessOptionAnswer: read CurrentQuestionID, look the node up, scan options
PoaRead(t) ==
  LET tk == tasks[t] IN
  /\ tk.pc = "poa_read"
  /\ \/ \E id \in ReadPosition(t) :
          LET res == GetQuestion(questions, id) IN
          tasks' = [tasks EXCEPT ![t] =
            IF ~res.ok THEN Finish(tk, "failed to get current question")
            ELSE IF FindOption(res.q, tk.payload) = 0
                 THEN Finish(tk, "option not found")
            ELSE [tk EXCEPT !.pc = "pa_get", !.cur = id,
                            !.sel = FindOption(res.q, tk.payload)]]
     \/ TornFault(t) /\ tasks' = Crash
  /\ UNCHANGED <<boot, questions, startID, reliable, states, heap, mu, nEvents, nOverlap>>

PaRead_KeyByID(t) ==
  LET tk == tasks[t]
      res == GetQuestion(questions, heap[tk.us].CurrentQuestionID)
  IN
  /\ tk.pc = "pa_read"
  /\ tasks' = [tasks EXCEPT ![t] =
       IF ~res.ok THEN Finish(tk, "failed to get current question")
       ELSE [tk EXCEPT !.pc = "pa_write", !.key = <<res.q.ID>>]]
  /\ UNCHANGED <<boot, questions, startID, reliable, states, heap, mu, nEvents, nOverlap>>

\* ProcessAnswer: read CurrentQuestionID, look the node up, take its text
PaRead(t) ==
  LET tk == tasks[t] IN
  /\ tk.pc = "pa_read"
  /\ \/ \E id \in ReadPosition(t) :
          LET res == GetQuestion(questions, id) IN
          tasks' = [tasks EXCEPT ![t] =
            IF ~res.ok THEN Finish(tk, "failed to get current question")
            ELSE [tk EXCEPT !.pc = "pa_write", !.key = GetDisplayText(res.q)]]
     \/ TornFault(t) /\ tasks' = Crash
  /\ UNCHANGED <<boot, questions, startID, reliable, states, heap, mu, nEvents, nOverlap>>

AfterAnswer_IgnoreAction(tk) ==
  LET cur == questions[tk.cur] IN
  IF tk.kind = "answer" THEN Finish(tk, "")
  ELSE IF tk.kind = "callback"
  THEN MoveTo(tk, cur.Options[tk.sel].NextID)
  ELSE IF Len(cur.Options) > 0
       THEN MoveTo(tk, cur.Options[1].NextID)
       ELSE Finish(tk, "")

AfterAnswer_MatchText(tk) ==
  LET cur == questions[tk.cur] IN
  IF tk.kind = "answer" THEN Finish(tk, "")
  ELSE IF tk.kind = "callback"
  THEN IF cur.Options[tk.sel].Action = LocationAction
       THEN Goto(tk, "loc_send")
       ELSE MoveTo(tk, cur.Options[tk.sel].NextID)
  ELSE IF Len(cur.Options) > 0
       THEN IF FindOption(cur, tk.payload) # 0
            THEN MoveTo(tk, cur.Options[FindOption(cur, tk.payload)].NextID)
            ELSE MoveTo(tk, cur.Options[1].NextID)
       ELSE Finish(tk, "")

\* what the caller of ProcessAnswer does next; a direct caller of AddAnswer
\* gets control back
AfterAnswer(tk) ==
  LET cur == questions[tk.cur] IN
  IF tk.kind = "answer" THEN Finish(tk, "")
  ELSE IF tk.kind = "callback"
  THEN IF cur.Options[tk.sel].Action = LocationAction
       THEN Goto(tk, "loc_send")
       ELSE MoveTo(tk, cur.Options[tk.sel].NextID)
  ELSE IF Len(cur.Options) > 0
       THEN MoveTo(tk, cur.Options[1].NextID)
       ELSE Finish(tk, "")

\* ProcessAnswer: userState.AddAnswer(questionText, answer)
PaWrite(t) ==
  LET tk == tasks[t] IN
  /\ tk.pc = "pa_write"
  /\ \/ /\ heap' = [heap EXCEPT ![tk.us].Answers =
                      AddAnswer(@, tk.key, tk.payload)]
        /\ tasks' = [tasks EXCEPT ![t] = AfterAnswer(tk)]
     \/ MapRace(t) /\ heap' = heap /\ tasks' = Crash
  /\ UNCHANGED <<boot, questions, startID, reliable, states, mu, nEvents, nOverlap>>

\* requestLocation: one send, which may fail
LocSend(t) ==
  LET tk == tasks[t] IN
  /\ tk.pc = "loc_send"
  /\ \/ tasks' = [tasks EXCEPT ![t] =
          Finish(Emit(tk, [kind |-> "location", to |-> tk.user, node |-> ""]), "")]
     \/ /\ ~reliable
        /\ tasks' = [tasks EXCEPT ![t] =
             Fail(tk, "", "failed to send location request")]
  /\ UNCHANGED <<boot, questions, startID, reliable, states, heap, mu, nEvents, nOverlap>>

\* UpdateCurrentQuestion: Lock, then state, exists := states[userID]
UpdLock(t) ==
  /\ tasks[t].pc = "upd_lock"
  /\ CanLock(mu)
  /\ mu' = [mu EXCEPT !.w = t]
  /\ tasks' = [tasks EXCEPT ![t] =
       [@ EXCEPT !.pc = "upd_body", !.found = states[tasks[t].user]]]
  /\ UNCHANGED <<boot, questions, startID, reliable, states, heap, nEvents, nOverlap>>

\* who called UpdateCurrentQuestion: the engine goes on to ProcessQuestion
\* with the node it looked up; a direct caller gets control back
AfterUpdate(tk) ==
  IF tk.kind = "update" THEN Finish(tk, "")
  ELSE [tk EXCEPT !.pc = "pq_get", !.q = tk.next]

UpdBody_CreateWhenAbsent(t) ==
  LET tk == tasks[t] IN
  /\ tk.pc = "upd_body"
  /\ heap' = IF tk.found # 0
             THEN [heap EXCEPT ![tk.found].CurrentQuestionID = tk.next]
             ELSE Append(heap, [NewUserState("") EXCEPT
                                  !.CurrentQuestionID = tk.next])
  /\ states' = IF tk.found # 0 THEN states
               ELSE [states EXCEPT ![tk.user] = Len(heap) + 1]
  /\ mu' = [mu EXCEPT !.w = 0]
  /\ tasks' = [tasks EXCEPT ![t] = AfterUpdate(tk)]
  /\ UNCHANGED <<boot, questions, startID, reliable, nEvents, nOverlap>>

UpdBody_KeepLock(t) ==
  LET tk == tasks[t] IN
  /\ tk.pc = "upd_body"
  /\ heap' = IF tk.found # 0
             THEN [heap EXCEPT ![tk.found].CurrentQuestionID = tk.next]
             ELSE heap
  /\ mu' = mu
  /\ tasks' = [tasks EXCEPT ![t] = AfterUpdate(tk)]
  /\ UNCHANGED <<boot, questions, startID, reliable, states, nEvents, nOverlap>>

UpdBody_NoWrite(t) ==
  LET tk == tasks[t] IN
  /\ tk.pc = "upd_body"
  /\ heap' = heap
  /\ mu' = [mu EXCEPT !.w = 0]
  /\ tasks' = [tasks EXCEPT ![t] = AfterUpdate(tk)]
  /\ UNCHANGED <<boot, questions, startID, reliable, states, nEvents, nOverlap>>

\* UpdateCurrentQuestion: write the position when the session exists, Unlock
UpdBody(t) ==
  LET tk == tasks[t] IN
  /\ tk.pc = "upd_body"
  /\ \E id \in WritePosition(t, tk.next) :
       heap' = IF tk.found # 0
               THEN [heap EXCEPT ![tk.found].CurrentQuestionID = id]
               ELSE heap
  /\ mu' = [mu EXCEPT !.w = 0]
  /\ tasks' = [tasks EXCEPT ![t] = AfterUpdate(tk)]
  /\ UNCHANGED <<boot, questions, startID, reliable, states, nEvents, nOverlap>>

\* SendImages: the photo or the media group, which may fail, and then
\* time.Sleep(delay) with delay = question.GetDelayMs(config.DelayMs)
PqImg(t) ==
  LET tk == tasks[t]
      q == questions[tk.q]
      sent == Emit(tk, [kind |-> "images", to |-> tk.user, node |-> tk.q,
                        images |-> ImagesToSend(q.Images)])
  IN
  /\ tk.pc = "pq_img"
  /\ \/ tasks' = [tasks EXCEPT ![t] =
          SendText(Emit(sent, [kind |-> "sleep",
                               ms |-> GetDelayMs(q, DefaultDelayMs)]))]
     \/ /\ ~reliable
        /\ tasks' = [tasks EXCEPT ![t] = Fail(tk, tk.q, "failed to send images")]
  /\ UNCHANGED <<boot, questions, startID, reliable, states, heap, mu, nEvents, nOverlap>>

PqMsg_IgnoreFailure(t) ==
  LET tk == tasks[t]
      q == questions[tk.q]
      last == tk.i = Len(q.Messages)
      sent == Emit(tk,
        [kind |-> "text", to |-> tk.user, node |-> tk.q,
         text |-> replaceNamePlaceholder(q.Messages[tk.i], heap[tk.us].Name),
         keyboard |-> IF last THEN BuildKeyboard(q) ELSE NoKeyboard])
      failed == Emit(tk, [kind |-> "fail", to |-> tk.user, node |-> tk.q])
  IN
  /\ tk.pc = "pq_msg"
  /\ \/ tasks' = [tasks EXCEPT ![t] =
          IF last THEN AfterQuestion(sent)
          ELSE [Emit(sent, [kind |-> "sleep", ms |-> DefaultDelayMs])
                  EXCEPT !.i = tk.i + 1]]
     \/ /\ ~reliable
        /\ tasks' = [tasks EXCEPT ![t] =
             IF last THEN AfterQuestion(failed)
             ELSE [failed EXCEPT !.i = tk.i + 1]]
  /\ UNCHANGED <<boot, questions, startID, reliable, states, heap, mu, nEvents, nOverlap>>

PqMsg_SleepAfterLast(t) ==
  LET tk == tasks[t]
      q == questions[tk.q]
      last == tk.i = Len(q.Messages)
      sent == Emit(tk,
        [kind |-> "text", to |-> tk.user, node |-> tk.q,
         text |-> replaceNamePlaceholder(q.Messages[tk.i], heap[tk.us].Name),
         keyboard |-> IF last THEN BuildKeyboard(q) ELSE NoKeyboard])
      slept == Emit(sent, [kind |-> "sleep", ms |-> DefaultDelayMs])
  IN
  /\ tk.pc = "pq_msg"
  /\ \/ tasks' = [tasks EXCEPT ![t] =
          IF last THEN AfterQuestion(slept)
          ELSE [slept EXCEPT !.i = tk.i + 1]]
     \/ /\ ~reliable
        /\ tasks' = [tasks EXCEPT ![t] = Fail(tk, tk.q, "failed to send messages")]
  /\ UNCHANGED <<boot, questions, startID, reliable, states, heap, mu, nEvents, nOverlap>>

\* SendMessages: message i, the keyboard on the last one; the send may fail;
\* time.Sleep(bot.config.DelayMs) after every message but the last
PqMsg(t) ==
  LET tk == tasks[t]
      q == questions[tk.q]
      last == tk.i = Len(q.Messages)
      sent == Emit(tk,
        [kind |-> "text", to |-> tk.user, node |-> tk.q,
         text |-> replaceNamePlaceholder(q.Messages[tk.i], heap[tk.us].Name),
         keyboard |-> IF last THEN BuildKeyboard(q) ELSE NoKeyboard])
  IN
  /\ tk.pc = "pq_msg"
  /\ \/ tasks' = [tasks EXCEPT ![t] =
          IF last THEN AfterQuestion(sent)
          ELSE [Emit(sent, [kind |-> "sleep", ms |-> DefaultDelayMs])
                  EXCEPT !.i = tk.i + 1]]
     \/ /\ ~reliable
        /\ tasks' = [tasks EXCEPT ![t] = Fail(tk, tk.q, "failed to send messages")]
  /\ UNCHANGED <<boot, questions, startID, reliable, states, heap, mu, nEvents, nOverlap>>

PqText_NoSummary(t) ==
  LET tk == tasks[t]
      q == questions[tk.q]
      us == heap[tk.us]
  IN
  /\ tk.pc = "pq_text"
  /\ \/ tasks' = [tasks EXCEPT ![t] =
            AfterQuestion(Emit(tk,
              [kind |-> "text", to |-> tk.user, node |-> tk.q,
               text |-> replaceNamePlaceholder(q.Text, us.Name),
               keyboard |-> BuildKeyboard(q)]))]
     \/ /\ ~reliable
        /\ tasks' = [tasks EXCEPT ![t] =
             Fail(tk, tk.q, "failed to send text message")]
  /\ UNCHANGED <<boot, questions, startID, reliable, states, heap, mu, nEvents, nOverlap>>

\* ProcessQuestion: the single text, with the answers summary on node "end"
PqText(t) ==
  LET tk == tasks[t]
      q == questions[tk.q]
      us == heap[tk.us]
  IN
  /\ tk.pc = "pq_text"
  /\ \/ \E summary \in (IF q.ID = FinalQuestionID
                        THEN generateAnswersSummary(us.Answers) ELSE {<<>>}) :
          tasks' = [tasks EXCEPT ![t] =
            AfterQuestion(Emit(tk,
              [kind |-> "text", to |-> tk.user, node |-> tk.q,
               text |-> replaceNamePlaceholder(q.Text, us.Name) \o summary,
               keyboard |-> BuildKeyboard(q)]))]
     \/ /\ ~reliable
        /\ tasks' = [tasks EXCEPT ![t] =
             Fail(tk, tk.q, "failed to send text message")]
     \/ MapRace(t) /\ tasks' = Crash
  /\ UNCHANGED <<boot, questions, startID, reliable, states, heap, mu, nEvents, nOverlap>>

\* HandleAutoAdvance: the delay (the default when the node's is 0)
AutoAdvanceDelay(q) ==
  IF q.AutoAdvanceDelayMs = 0 THEN DefaultDelayMs ELSE q.AutoAdvanceDelayMs

AaSleep_LastOption(t) ==
  LET tk == tasks[t]
      q == questions[tk.q]
      slept == Emit(tk, [kind |-> "sleep", ms |-> AutoAdvanceDelay(q)])
  IN
  /\ tk.pc = "aa_sleep"
  /\ tasks' = [tasks EXCEPT ![t] =
       IF Len(q.Options) > 0 THEN MoveTo(slept, q.Options[Len(q.Options)].NextID)
       ELSE Finish(slept, "")]
  /\ UNCHANGED <<boot, questions, startID, reliable, states, heap, mu, nEvents, nOverlap>>

AaSleep_CancelWhenMoved(t) ==
  LET tk == tasks[t]
      q == questions[tk.q]
      slept == Emit(tk, [kind |-> "sleep", ms |-> AutoAdvanceDelay(q)])
  IN
  /\ tk.pc = "aa_sleep"
  /\ tasks' = [tasks EXCEPT ![t] =
       IF states[tk.user] = 0 \/ heap[states[tk.user]].CurrentQuestionID # tk.q
       THEN Finish(slept, "")
       ELSE IF Len(q.Options) > 0 THEN MoveTo(slept, q.Options[1].NextID)
       ELSE Finish(slept, "")]
  /\ UNCHANGED <<boot, questions, startID, reliable, states, heap, mu, nEvents, nOverlap>>

AaSleep_CycleGuard(t) ==
  LET tk == tasks[t]
      q == questions[tk.q]
      slept == Emit(tk, [kind |-> "sleep", ms |-> AutoAdvanceDelay(q)])
  IN
  /\ tk.pc = "aa_sleep"
  /\ tasks' = [tasks EXCEPT ![t] =
       IF Len(q.Options) = 0 THEN Finish(slept, "")
       ELSE IF \E i \in 1..Len(tk.out) :
                 /\ tk.out[i].kind # "sleep"
                 /\ tk.out[i].node = q.Options[1].NextID
       THEN Finish(slept, "")
       ELSE MoveTo(slept, q.Options[1].NextID)]
  /\ UNCHANGED <<boot, questions, startID, reliable, states, heap, mu, nEvents, nOverlap>>

AaSleep_RecordsAnswer(t) ==
  LET tk == tasks[t]
      q == questions[tk.q]
      slept == Emit(tk, [kind |-> "sleep", ms |-> AutoAdvanceDelay(q)])
  IN
  /\ tk.pc = "aa_sleep"
  /\ tasks' = [tasks EXCEPT ![t] =
       IF Len(q.Options) > 0 THEN MoveTo(slept, q.Options[1].NextID)
       ELSE Finish(slept, "")]
  /\ heap' = IF Len(q.Options) > 0 /\ tk.us # 0
             THEN [heap EXCEPT ![tk.us].Answers =
                     AddAnswer(@, GetDisplayText(q), q.Options[1].Text)]
             ELSE heap
  /\ UNCHANGED <<boot, questions, startID, reliable, states, mu, nEvents, nOverlap>>

\* HandleAutoAdvance: sleep, then take Options[0] and look its target up
AaSleep(t) ==
  LET tk == tasks[t]
      q == questions[tk.q]
      slept == Emit(tk, [kind |-> "sleep", ms |-> AutoAdvanceDelay(q)])
  IN
  /\ tk.pc = "aa_sleep"
  /\ tasks' = [tasks EXCEPT ![t] =
       IF Len(q.Options) > 0 THEN MoveTo(slept, q.Options[1].NextID)
       ELSE Finish(slept, "")]
  /\ UNCHANGED <<boot, questions, startID, reliable, states, heap, mu, nEvents, nOverlap>>

Step(t) ==
  \/ GocLock(t) \/ GocBody(t) \/ TiRead(t) \/ ScWrite(t)
  \/ SetLock(t) \/ SetBody(t) \/ GetUserState(t)
  \/ PoaRead(t) \/ PaRead(t) \/ PaWrite(t) \/ LocSend(t)
  \/ UpdLock(t) \/ UpdBody(t) \/ PqImg(t) \/ PqMsg(t)
  \/ PqText(t) \/ AaSleep(t)

\* goroutines are scheduled freely: updates of one user may overlap
Next == \E t \in Tasks : Ingest(t) \/ Step(t)

Spec == Init /\ [][Next]_vars

\* the same program fed by users who wait for the bot before they act again
IngestSerial(t) ==
  /\ Ingest(t)
  /\ \A o \in Tasks \ {t} : Active(tasks[o]) => tasks[o].user # tasks'[t].user

NextSerial == \E t \in Tasks : IngestSerial(t) \/ Step(t)

SpecSerial == Init /\ [][NextSerial]_vars

\* the same program fed one update at a time
IngestSeq(t) ==
  /\ Ingest(t)
  /\ \A o \in Tasks : ~Active(tasks[o])

NextSeq == \E t \in Tasks : IngestSeq(t) \/ Step(t)

SpecSeq == Init /\ [][NextSeq]_vars

\* a process about to run main: nothing is built yet
InitBoot ==
  /\ \E main \in Mains, env \in Environments, c \in FileContents :
       boot = [phase |-> "off", main |-> main, path |-> NoPath, err |-> "",
               env |-> env,
               disk |-> [p \in {DefaultQuestionsPath, CustomQuestionsPath} |->
                           IF p = DefaultQuestionsPath THEN c
                           ELSE File(ChainList)]]
  /\ questions = <<>>
  /\ startID = ""
  /\ reliable \in BOOLEAN
  /\ states = [u \in Users |-> 0]
  /\ heap = <<>>
  /\ mu = [w |-> 0, r |-> {}]
  /\ tasks = [t \in Tasks |-> IdleTask]
  /\ nEvents = 0
  /\ nOverlap = 0

\* main up to the call of startBot: LoadFromEnv, Validate, NewBotAPI (the
\* token is accepted), LoadQuestions, the constructors; an error ends the
\* process (log.Fatalf)
Boot ==
  /\ boot.phase = "off"
  /\ LET env == LoadFromEnv(boot.env) IN
     IF ~env.ok
     THEN /\ boot' = [boot EXCEPT !.phase = "fatal", !.err = env.err]
          /\ UNCHANGED <<questions, startID>>
     ELSE IF Validate(env.cfg) # ""
     THEN /\ boot' = [boot EXCEPT !.phase = "fatal",
                                  !.err = Validate(env.cfg)]
          /\ UNCHANGED <<questions, startID>>
     ELSE LET path == QuestionsPath(boot.main, boot.env, env.cfg)
              res == LoadQuestions(path, boot.disk)
          IN
          IF ~res.ok
          THEN /\ boot' = [boot EXCEPT !.phase = "fatal", !.path = path,
                                       !.err = res.err]
               /\ UNCHANGED <<questions, startID>>
          ELSE /\ boot' = [boot EXCEPT !.phase = "up", !.path = path]
               /\ questions' = res.q
               /\ startID' = env.cfg.StartQuestionID
  /\ UNCHANGED <<reliable, states, heap, mu, tasks, nEvents, nOverlap>>

\* the process from its start: main, then one update at a time
NextBoot == Boot \/ \E t \in Tasks : IngestSeq(t) \/ Step(t)

SpecBoot == InitBoot /\ [][NextBoot]_vars

\* One update at a time, and every handler that can take a step eventually
\* takes it: the Go scheduler runs every runnable goroutine, a sleep ends, a
\* send returns, and with one handler at a time the store's lock is free.
SpecSeqFair == SpecSeq /\ \A t \in Tasks : WF_vars(Step(t))

\* a graph whose first-option edges form a cycle of autoAdvance nodes: start
\* (an image and a text) and tock (a message sequence)
CycleGraph == MapOf(<<
  Question("start", <<"Tick">>, <<>>, <<"a.png">>,
           <<Opt("", "tock", ""), Opt("L", "tock", LocationAction)>>,
           "", TRUE, 0),
  Question("tock", <<>>, << <<"Tock">> >>, <<>>,
           <<Opt("", "start", "")>>, "", TRUE, 10) >>)

InitCycle ==
  /\ boot = Constructed
  /\ questions = CycleGraph
  /\ startID \in StartIDs
  /\ reliable \in BOOLEAN
  /\ states = [u \in Users |-> 0]
  /\ heap = <<>>
  /\ mu = [w |-> 0, r |-> {}]
  /\ tasks = [t \in Tasks |-> IdleTask]
  /\ nEvents = 0
  /\ nOverlap = 0

\* a handler's step, followed while its log holds fewer than MaxLog entries
StepLogged(t) == Len(tasks[t].out) < MaxLog /\ Step(t)

NextCycle == \E t \in Tasks : IngestSerial(t) \/ StepLogged(t)

\* The program on the cyclic graph, users waiting for the bot before they
\* act again.  Every handler that can take a step eventually takes it: the
\* scheduler runs every runnable goroutine, a sleep ends, a send returns,
\* and the store's lock is held only for the length of one map access.
SpecCycle ==
  InitCycle /\ [][NextCycle]_vars /\ \A t \in Tasks : WF_vars(StepLogged(t))

\* a graph for a second pass: from start to a text question with an image
\* and a message sequence, on through an auto-advance node to the terminal
\* node, or from start to the terminal node at once
RestartGraph == MapOf(<<
  Question("start", <<"What?">>, <<>>, <<>>,
           <<Opt("Go", "ask", ""), Opt("Skip", "end", ""),
             Opt("L", "ghost", LocationAction)>>, "", FALSE, 0),
  Question("ask", <<>>, << <<"For ", NameToken>>, <<"Note?">> >>, <<"a.png">>,
           <<Opt("Next", "hop", "")>>, "text", FALSE, 0),
  Question("hop", <<"Hop">>, <<>>, <<>>, <<Opt("", "end", "")>>, "", TRUE, 10),
  Question("end", <<"Done">>, <<>>, <<>>, <<>>, "", FALSE, 0) >>)

InitRestart ==
  /\ boot = Constructed
  /\ questions = RestartGraph
  /\ startID = DefaultStartQuestionID
  /\ reliable \in BOOLEAN
  /\ states = [u \in Users |-> 0]
  /\ heap = <<>>
  /\ mu = [w |-> 0, r |-> {}]
  /\ tasks = [t \in Tasks |-> IdleTask]
  /\ nEvents = 0
  /\ nOverlap = 0

\* startBot fed one update at a time, MaxRestartEvents of them
IngestRestart(t) ==
  /\ boot.phase = "up"
  /\ t = 1
  /\ \A o \in Tasks : ~Active(tasks[o])
  /\ nEvents < MaxRestartEvents
  /\ \E u \in Users, ev \in Events(questions) :
       tasks' = [o \in Tasks |->
         IF o = t
         THEN [IdleTask EXCEPT !.user = u, !.name = ev.name, !.kind = ev.kind,
                 !.payload = ev.payload, !.pre = Session(u),
                 !.pc = IF ev.kind = "callback" THEN "cb_get" ELSE "goc_lock"]
         ELSE IdleTask]
  /\ nEvents' = nEvents + 1
  /\ UNCHANGED <<boot, questions, startID, reliable, states, heap, mu, nOverlap>>

NextRestart == \E t \in Tasks : IngestRestart(t) \/ Step(t)

\* the program on the restart graph, one update at a time
SpecRestart == InitRestart /\ [][NextRestart]_vars

\* node IDs a caller of the store may pass: the store does not look them up
StoreNodeIDs(qs) == DOMAIN qs \cup {"ghost"}

\* the direct calls of the tests of the store and of the session:
\* UpdateCurrentQuestion(userID, nodeID), and AddAnswer(question, answer) on
\* the session GetOrCreateUserState(userID, name) returns
DirectCalls(qs) ==
  [kind : {"update"}, pc : {"upd_lock"}, next : StoreNodeIDs(qs),
   key : {<<>>}, payload : {""}, name : {""}]
  \cup
  [kind : {"answer"}, pc : {"goc_lock"}, next : {""},
   key : {<<"K">>, <<"What?">>}, payload : {"x", "y"}, name : {"Ann"}]

\* one such call, made between two updates
StoreCall(t) ==
  /\ \A o \in Tasks : ~Active(tasks[o])
  /\ t = 1
  /\ nEvents < MaxEvents
  /\ \E u \in Users, call \in DirectCalls(questions) :
       tasks' = [o \in Tasks |->
         IF o = t
         THEN [IdleTask EXCEPT !.user = u, !.kind = call.kind,
                 !.next = call.next, !.key = call.key,
                 !.payload = call.payload, !.name = call.name,
                 !.pre = Session(u), !.pc = call.pc]
         ELSE IdleTask]
  /\ nEvents' = nEvents + 1
  /\ UNCHANGED <<boot, questions, startID, reliable, states, heap, mu, nOverlap>>

\* the calls of the store's concurrency test and of its other tests:
\* GetUserState, SetUserState with a new session, UpdateCurrentQuestion,
\* GetOrCreateUserState
StoreOps(qs) ==
  [kind : {"get"}, pc : {"get_rlock"}, next : {""}, name : {""}]
  \cup [kind : {"set"}, pc : {"set_lock"}, next : {""}, name : {"Ann", "Bob"}]
  \cup [kind : {"update"}, pc : {"upd_lock"}, next : StoreNodeIDs(qs),
        name : {""}]
  \cup [kind : {"create"}, pc : {"goc_lock"}, next : {""}, name : {"Ann", "Bob"}]

\* a goroutine is started that makes one such call
ConcCall(t) ==
  /\ ~Active(tasks[t])
  /\ \A o \in 1..(t - 1) : Active(tasks[o])
  /\ nEvents < MaxEvents
  /\ \E u \in Users, call \in StoreOps(questions) :
       /\ heap' = IF call.kind = "set"
                  THEN Append(heap, NewUserState(call.name)) ELSE heap
       /\ tasks' = [o \in Tasks |->
            IF o = t
            THEN [IdleTask EXCEPT !.user = u, !.kind = call.kind,
                    !.next = call.next, !.name = call.name,
                    !.us = IF call.kind = "set" THEN Len(heap) + 1 ELSE 0,
                    !.pre = Session(u), !.pc = call.pc]
            ELSE IF Active(tasks[o]) THEN tasks[o] ELSE IdleTask]
  /\ nEvents' = nEvents + 1
  /\ IF \E o \in Tasks : Active(tasks[o])
     THEN nOverlap < MaxOverlap /\ nOverlap' = nOverlap + 1
     ELSE nOverlap' = nOverlap
  /\ UNCHANGED <<boot, questions, startID, reliable, states, mu>>

\* GetUserState: RLock
GetRLock(t) ==
  /\ tasks[t].pc = "get_rlock"
  /\ CanRLock(mu)
  /\ mu' = [mu EXCEPT !.r = @ \cup {t}]
  /\ tasks' = [tasks EXCEPT ![t] = Goto(@, "get_read")]
  /\ UNCHANGED <<boot, questions, startID, reliable, states, heap, nEvents, nOverlap>>

\* GetUserState: read states[userID], RUnlock, return the pointer (kept in
\* found)
GetRead(t) ==
  LET tk == tasks[t] IN
  /\ tk.pc = "get_read"
  /\ mu' = [mu EXCEPT !.r = @ \ {t}]
  /\ tasks' = [tasks EXCEPT ![t] =
       [Finish(tk, "") EXCEPT !.found = states[tk.user]]]
  /\ UNCHANGED <<boot, questions, startID, reliable, states, heap, nEvents, nOverlap>>

\* goroutines that call the store directly, scheduled freely, with the
\* read lock of GetUserState taken and released in steps of their own
NextRW ==
  \E t \in Tasks :
    \/ ConcCall(t) \/ GetRLock(t) \/ GetRead(t)
    \/ GocLock(t) \/ GocBody(t) \/ SetLock(t) \/ SetBody(t)
    \/ UpdLock(t) \/ UpdBody(t)

SpecRW == Init /\ [][NextRW]_vars

NextStore == \E t \in Tasks : IngestSeq(t) \/ StoreCall(t) \/ Step(t)

\* one update or one direct call at a time
SpecStore == Init /\ [][NextStore]_vars

\* ------------------------------------------------------ reading the state
Done(tk) == tk.pc = "done"

\* position and answers of a session value; no session counts as the
\* "no conversation" state
PosOf(s) == IF s = <<>> THEN "" ELSE s[1].CurrentQuestionID
AnswersOf(s) == IF s = <<>> THEN <<>> ELSE s[1].Answers

\* what a handler has put on the wire: its log without the sleeps and the
\* refused sends
Sent(tk) == SelectSeq(tk.out, LAMBDA e : e.kind \notin {"sleep", "fail"})

RECURSIVE Collapse(_)
Collapse(seq) ==
  IF Len(seq) <= 1 THEN seq
  ELSE IF seq[1] = seq[2] THEN Collapse(Tail(seq))
  ELSE <<seq[1]>> \o Collapse(Tail(seq))

\* the nodes a handler has emitted content for, in order, one entry per node
EmittedNodes(tk) == Collapse([i \in 1..Len(Sent(tk)) |-> Sent(tk)[i].node])

HasContent(q) ==
  ImagesToSend(q.Images) # <<>> \/ Len(q.Messages) > 0 \/ q.Text # <<>>

\* the nodes entered when node id is entered: id, then the first option's
\* target while the node is autoAdvance, has an option and the target exists
RECURSIVE Chain(_, _, _)
Chain(qs, id, fuel) ==
  IF fuel = 0 THEN <<>>
  ELSE <<id>> \o
       (IF /\ qs[id].AutoAdvance
           /\ Len(qs[id].Options) > 0
           /\ qs[id].Options[1].NextID \in DOMAIN qs
        THEN Chain(qs, qs[id].Options[1].NextID, fuel - 1)
        ELSE <<>>)

ChainOf(id) == Chain(questions, id, Cardinality(DOMAIN questions))
ChainEnd(id) == ChainOf(id)[Len(ChainOf(id))]
ChainContent(id) ==
  SelectSeq(ChainOf(id), LAMBDA n : HasContent(questions[n]))

\* index of the earliest option of q labelled label, 0 when there is none
FirstLabelled(q, label) ==
  LET hits == {i \in 1..Len(q.Options) : q.Options[i].Text = label} IN
  IF hits = {} THEN 0 ELSE CHOOSE i \in hits : \A j \in hits : i <= j

\* ------------------------------------------------------------------ claims

\* C1: concurrent GetOrCreateUserState calls for one new user create and
\* store exactly one session, and every call returns that session: the heap
\* holds one object per user with an entry, and the pointer a handler got is
\* the stored one.
C1_CreatedExactlyOnce ==
  /\ Len(heap) = Cardinality({u \in Users : states[u] # 0})
  /\ \A t \in Tasks :
       tasks[t].us # 0 => tasks[t].us = states[tasks[t].user]

\* two handlers of one user, both started when the user had no session, have
\* both returned from GetOrCreateUserState with the same pointer
C1_Witness ==
  \E t1, t2 \in Tasks :
    /\ t1 # t2
    /\ tasks[t1].user = tasks[t2].user
    /\ tasks[t1].pre = <<>> /\ tasks[t2].pre = <<>>
    /\ tasks[t1].pc \in {"sc_write", "ti_read"}
    /\ tasks[t2].pc \in {"sc_write", "ti_read"}
    /\ tasks[t1].us = tasks[t2].us /\ tasks[t1].us # 0

\* the answers a after answer v has been recorded under key k
WithAnswer(a, k, v) ==
  [x \in DOMAIN a \cup {k} |-> IF x = k THEN v ELSE a[x]]

\* a handler that has returned, seen with the session it found at its start
\* and the session it leaves (one update at a time: SpecSeq)
CallbackAt(tk) ==
  /\ tk.kind = "callback"
  /\ tk.pre # <<>>
  /\ PosOf(tk.pre) \in DOMAIN questions

TextAt(tk) ==
  /\ tk.kind = "text"
  /\ PosOf(tk.pre) \in DOMAIN questions

\* C2: a button selection whose payload is the label of an option (the
\* earliest so labelled) that is no location request and leads to a node of
\* the graph records display text -> label, moves the position to the
\* option's target, emits the target once and runs the auto-advance chain
\* from it (transport never failing).
C2_OptionTransition ==
  \A t \in Tasks :
    LET tk == tasks[t]
        cur == questions[PosOf(tk.pre)]
        i == FirstLabelled(cur, tk.payload)
        next == cur.Options[i].NextID
        now == Session(tk.user)
    IN
    (/\ CallbackAt(tk)
     /\ i # 0
     /\ cur.Options[i].Action # LocationAction
     /\ next \in DOMAIN questions)
    => /\ (tk.pc = "pq_get" /\ tk.out = <<>>) =>
            /\ PosOf(now) = next
            /\ AnswersOf(now) =
                 WithAnswer(AnswersOf(tk.pre), GetDisplayText(cur), tk.payload)
       /\ (Done(tk) /\ reliable) =>
            /\ AnswersOf(now) =
                 WithAnswer(AnswersOf(tk.pre), GetDisplayText(cur), tk.payload)
            /\ PosOf(now) = ChainEnd(next)
            /\ EmittedNodes(tk) = ChainContent(next)

\* a selection has led into an auto-advance chain of two nodes
C2_Witness ==
  \E t \in Tasks :
    LET tk == tasks[t]
        cur == questions[PosOf(tk.pre)]
        i == FirstLabelled(cur, tk.payload)
    IN
    /\ Done(tk) /\ reliable /\ CallbackAt(tk)
    /\ i # 0
    /\ cur.Options[i].Action # LocationAction
    /\ cur.Options[i].NextID \in DOMAIN questions
    /\ Len(ChainOf(cur.Options[i].NextID)) > 1
    /\ Len(EmittedNodes(tk)) > 1

\* C3: a button selection whose payload is the label of no option of the
\* current node returns an error, leaves the session as it was and emits
\* nothing.
C3_UnknownLabel ==
  \A t \in Tasks :
    LET tk == tasks[t]
        cur == questions[PosOf(tk.pre)]
    IN
    (/\ Done(tk) /\ CallbackAt(tk)
     /\ \A i \in 1..Len(cur.Options) : cur.Options[i].Text # tk.payload)
    => /\ tk.err = "option not found"
       /\ Session(tk.user) = tk.pre
       /\ tk.out = <<>>

\* an unknown label was selected at a node, with an answer already recorded
C3_Witness ==
  \E t \in Tasks :
    LET tk == tasks[t]
        cur == questions[PosOf(tk.pre)]
    IN
    /\ Done(tk) /\ CallbackAt(tk)
    /\ \A i \in 1..Len(cur.Options) : cur.Options[i].Text # tk.payload
    /\ AnswersOf(tk.pre) # <<>>
    /\ tk.err = "option not found"

\* the four ways of claim C4 in which an update runs into a node ID that is
\* not in the graph
MissingNode(tk) ==
  LET cur == questions[PosOf(tk.pre)]
      i == FirstLabelled(cur, tk.payload)
  IN
  \/ /\ tk.kind = "callback" /\ tk.pre # <<>>
     /\ PosOf(tk.pre) \notin DOMAIN questions
  \/ /\ tk.kind = "command" /\ tk.payload = "start"
     /\ startID \notin DOMAIN questions
  \/ /\ CallbackAt(tk) /\ i # 0
     /\ cur.Options[i].Action # LocationAction
     /\ cur.Options[i].NextID \notin DOMAIN questions
  \/ /\ TextAt(tk) /\ cur.InputType # ""
     /\ Len(cur.Options) > 0
     /\ cur.Options[1].NextID \notin DOMAIN questions

\* C4: when handling an update fails because a node ID is not in the graph,
\* position and answers are what they were before the update and nothing is
\* emitted.
C4_MissingNodeChangesNothing ==
  \A t \in Tasks :
    LET tk == tasks[t]
        now == Session(tk.user)
    IN
    (Done(tk) /\ MissingNode(tk))
    => /\ PosOf(now) = PosOf(tk.pre)
       /\ AnswersOf(now) = AnswersOf(tk.pre)
       /\ tk.out = <<>>

\* C5: the start command, when the start node exists, writes the start node
\* ID into the session whatever the position was, stores the session, emits
\* the start node and continues its auto-advance chain.
C5_StartResets ==
  \A t \in Tasks :
    LET tk == tasks[t]
        now == Session(tk.user)
    IN
    (/\ tk.kind = "command" /\ tk.payload = "start"
     /\ startID \in DOMAIN questions)
    => /\ tk.pc \in {"set_lock", "set_body"} =>
            heap[tk.us].CurrentQuestionID = startID
       /\ (tk.pc = "pq_get" /\ tk.out = <<>>) =>
            /\ tk.q = startID
            /\ states[tk.user] = tk.us
            /\ PosOf(now) = startID
       /\ (Done(tk) /\ reliable) =>
            /\ PosOf(now) = ChainEnd(startID)
            /\ EmittedNodes(tk) = ChainContent(startID)

\* a user who had moved on restarted, and the chain of the start node ran
C5_Witness ==
  \E t \in Tasks :
    LET tk == tasks[t] IN
    /\ Done(tk) /\ reliable
    /\ tk.kind = "command" /\ tk.payload = "start"
    /\ startID \in DOMAIN questions
    /\ PosOf(tk.pre) \notin {"", startID, PosOf(Session(tk.user))}
    /\ Len(ChainOf(startID)) > 1
    /\ Len(EmittedNodes(tk)) > 1

\* C6: free text at a node with inputKind and an option (whose target is in
\* the graph) records display text -> raw text and moves to the target of
\* the first option whatever the text is; the target is emitted and its
\* auto-advance chain runs.
C6_TextCapture ==
  \A t \in Tasks :
    LET tk == tasks[t]
        cur == questions[PosOf(tk.pre)]
        next == cur.Options[1].NextID
        now == Session(tk.user)
    IN
    (/\ Done(tk) /\ reliable /\ TextAt(tk)
     /\ cur.InputType # ""
     /\ Len(cur.Options) > 0
     /\ next \in DOMAIN questions)
    => /\ AnswersOf(now) =
            WithAnswer(AnswersOf(tk.pre), GetDisplayText(cur), tk.payload)
       /\ PosOf(now) = ChainEnd(next)
       /\ EmittedNodes(tk) = ChainContent(next)

\* the text typed equals the label of a later option that leads elsewhere
C6_Witness ==
  \E t \in Tasks :
    LET tk == tasks[t]
        cur == questions[PosOf(tk.pre)]
    IN
    /\ Done(tk) /\ reliable /\ TextAt(tk)
    /\ cur.InputType # ""
    /\ Len(cur.Options) > 1
    /\ cur.Options[2].Text = tk.payload
    /\ cur.Options[2].NextID # cur.Options[1].NextID
    /\ PosOf(Session(tk.user)) = cur.Options[1].NextID

\* C7: free text at a node with inputKind and no option records the answer
\* under the node's display text; the position stays and nothing is emitted.
C7_TextParked ==
  \A t \in Tasks :
    LET tk == tasks[t]
        cur == questions[PosOf(tk.pre)]
        now == Session(tk.user)
    IN
    (/\ Done(tk) /\ TextAt(tk)
     /\ cur.InputType # ""
     /\ Len(cur.Options) = 0)
    => /\ AnswersOf(now) =
            WithAnswer(AnswersOf(tk.pre), GetDisplayText(cur), tk.payload)
       /\ PosOf(now) = PosOf(tk.pre)
       /\ tk.out = <<>>

\* text was typed at such a node
C7_Witness ==
  \E t \in Tasks :
    LET tk == tasks[t]
        cur == questions[PosOf(tk.pre)]
    IN
    /\ Done(tk) /\ TextAt(tk)
    /\ cur.InputType # ""
    /\ Len(cur.Options) = 0
    /\ GetDisplayText(cur) \in DOMAIN AnswersOf(Session(tk.user))

\* C8: free text with no active conversation, or at a node without
\* inputKind, changes neither position nor answers and emits nothing.
C8_TextIgnored ==
  \A t \in Tasks :
    LET tk == tasks[t]
        now == Session(tk.user)
    IN
    (/\ Done(tk) /\ tk.kind = "text"
     /\ \/ PosOf(tk.pre) = ""
        \/ /\ PosOf(tk.pre) \in DOMAIN questions
           /\ questions[PosOf(tk.pre)].InputType = "")
    => /\ PosOf(now) = PosOf(tk.pre)
       /\ AnswersOf(now) = AnswersOf(tk.pre)
       /\ tk.out = <<>>

\* text was typed at a node that has options but no inputKind
C8_Witness ==
  \E t \in Tasks :
    LET tk == tasks[t] IN
    /\ Done(tk) /\ tk.kind = "text"
    /\ PosOf(tk.pre) \in DOMAIN questions
    /\ questions[PosOf(tk.pre)].InputType = ""
    /\ Len(questions[PosOf(tk.pre)].Options) > 0

NodeIDs == UNION {DOMAIN g : g \in Graphs}

\* where repeatedly taking the first option from node id stops: the first
\* node that is not autoAdvance or has no option; "<missing>" when an edge
\* on the way is dangling, "<cycle>" when the way does not stop
RECURSIVE Follow(_, _, _)
Follow(qs, id, fuel) ==
  IF id \notin DOMAIN qs THEN "<missing>"
  ELSE IF ~qs[id].AutoAdvance \/ Len(qs[id].Options) = 0 THEN id
  ELSE IF fuel = 0 THEN "<cycle>"
  ELSE Follow(qs, qs[id].Options[1].NextID, fuel - 1)

FollowFrom(id) == Follow(questions, id, Cardinality(DOMAIN questions))

\* C9: once an autoAdvance node has been emitted, if the first-option path
\* from it has no cycle and no dangling edge and the transport never fails,
\* the handler eventually returns with the position at the first node of that
\* path that is not autoAdvance or has no option.
C9_ChainTerminates ==
  \A t \in Tasks : \A n \in NodeIDs :
    (/\ tasks[t].pc = "aa_sleep" /\ tasks[t].q = n
     /\ reliable
     /\ FollowFrom(n) \in DOMAIN questions)
    ~> (/\ Done(tasks[t])
        /\ PosOf(Session(tasks[t].user)) = FollowFrom(n))

\* a chain of two autoAdvance nodes has run to its end
C9_Witness ==
  \E t \in Tasks :
    LET tk == tasks[t] IN
    /\ Done(tk) /\ reliable
    /\ tk.kind = "command" /\ tk.payload = "start"
    /\ startID \in DOMAIN questions
    /\ Len(ChainOf(startID)) > 2
    /\ PosOf(Session(tk.user)) = FollowFrom(startID)
    /\ Len(questions[startID].Options) > 1

\* the number of sends ProcessQuestion makes for a node
SendsFor(q) ==
  (IF ImagesToSend(q.Images) # <<>> THEN 1 ELSE 0)
  + (IF Len(q.Messages) > 0 THEN Len(q.Messages)
     ELSE IF q.Text # <<>> THEN 1 ELSE 0)

C11_OtherSessionsUntouched ==
  [][\A t \in Tasks :
       (Active(tasks[t]) /\ tasks'[t] # tasks[t])
       => /\ \A u \in Users \ {tasks[t].user} : Session(u)' = Session(u)
          /\ \A i \in 1..Len(tasks'[t].out) :
               tasks'[t].out[i].kind # "sleep"
               => tasks'[t].out[i].to = tasks[t].user]_vars

\* handlers of two users have overlapped: one has returned having changed
\* its user's session while the other, which had a session, is emitting
C11_Witness ==
  \E t1, t2 \in Tasks :
    /\ tasks[t1].user # tasks[t2].user
    /\ Done(tasks[t1])
    /\ Session(tasks[t1].user) # tasks[t1].pre
    /\ Sent(tasks[t1]) # <<>>
    /\ Active(tasks[t2])
    /\ tasks[t2].pre # <<>>
    /\ Sent(tasks[t2]) # <<>>

\* C12: a button selection of a user with no session goes no further than
\* the session lookup: option processing is not entered, the handler
\* returns "user state not found", no session is created and nothing is
\* emitted.
C12_CallbackWithoutSession ==
  \A t \in Tasks :
    LET tk == tasks[t] IN
    (tk.kind = "callback" /\ tk.pre = <<>>)
    => /\ tk.pc \in {"cb_get", "done"}
       /\ tk.out = <<>>
       /\ Session(tk.user) = <<>>
       /\ Done(tk) => tk.err = "user state not found"

\* such a selection has been handled while another user had a session
C12_Witness ==
  \E t \in Tasks :
    LET tk == tasks[t] IN
    /\ Done(tk) /\ tk.kind = "callback" /\ tk.pre = <<>>
    /\ tk.err = "user state not found"
    /\ \E u \in Users : states[u] # 0

\* C13 as stated: after an update of any kind has been handled, its user
\* has a session.
C13_AnyEventCreates ==
  \A t \in Tasks :
    (Done(tasks[t]) /\ tasks[t].kind \in {"command", "text", "callback"})
    => Session(tasks[t].user) # <<>>

\* the display names an update of this kind and payload can carry
NamesOf(tk) ==
  {m.name : m \in {x \in Messages : x.kind = tk.kind /\ x.payload = tk.payload}}

\* C13 (amended): once GetOrCreateUserState has returned in the handler of
\* a message (start command, other command, free text), the user has a
\* session; when it is the user's first, it is a fresh one (no position, no
\* answers) under the display name of the message.
C13_MessageCreates ==
  \A t \in Tasks :
    LET tk == tasks[t] IN
    (/\ tk.kind \in {"command", "text"}
     /\ tk.pc \notin {"idle", "goc_lock", "goc_body"})
    => /\ Session(tk.user) # <<>>
       /\ (tk.pre = <<>> /\ tk.pc \in {"sc_write", "ti_read"}) =>
            \E n \in NamesOf(tk) : Session(tk.user) = <<NewUserState(n)>>
       /\ (tk.pre = <<>> /\ Done(tk) /\ tk.kind = "text") =>
            \E n \in NamesOf(tk) : Session(tk.user) = <<NewUserState(n)>>

\* a first contact by free text has been handled
C13_Witness ==
  \E t \in Tasks :
    LET tk == tasks[t] IN
    /\ Done(tk) /\ tk.kind = "text" /\ tk.pre = <<>>
    /\ Session(tk.user) = <<NewUserState("Ann")>>

\* C14: the step in which GetOrCreateUserState finds a session changes
\* neither the store nor any session (the display name passed is dropped)
\* and returns the stored pointer.
C14_ExistingReturnedUnchanged ==
  [][\A t \in Tasks :
       (/\ tasks[t].pc = "goc_body" /\ tasks[t].found # 0
        /\ tasks'[t].pc # "goc_body")
       => /\ heap' = heap
          /\ states' = states
          /\ tasks[t].found = states[tasks[t].user]
          /\ ~Done(tasks'[t]) => tasks'[t].us = states[tasks[t].user]]_vars

\* a message carrying the name "Bob" has come from a user whose session was
\* created under the name "Ann" and has a position and an answer
C14_Witness ==
  \E t \in Tasks :
    LET tk == tasks[t] IN
    /\ tk.pc = "ti_read" /\ tk.payload = "B"
    /\ tk.pre # <<>>
    /\ heap[tk.us].Name = "Ann"
    /\ heap[tk.us].CurrentQuestionID # ""
    /\ heap[tk.us].Answers # <<>>
    /\ <<heap[tk.us]>> = tk.pre

\* C15: the step in which UpdateCurrentQuestion(userID, nodeID) runs changes
\* nothing when the user has no session, and otherwise only the position of
\* that user's session, which becomes nodeID (in the graph or not).
C15_UpdateOnlyPosition ==
  [][\A t \in Tasks :
       (tasks[t].pc = "upd_body" /\ tasks'[t].pc # "upd_body")
       => LET u == tasks[t].user IN
          /\ states' = states
          /\ IF states[u] = 0 THEN heap' = heap
             ELSE heap' = [p \in DOMAIN heap |->
                    IF p = states[u]
                    THEN [CurrentQuestionID |-> tasks[t].next,
                          Answers |-> heap[p].Answers, Name |-> heap[p].Name]
                    ELSE heap[p]]]_vars

\* a direct call has moved a session that holds an answer to another node
C15_Witness ==
  \E t \in Tasks :
    LET tk == tasks[t] IN
    /\ Done(tk) /\ tk.kind = "update"
    /\ AnswersOf(tk.pre) # <<>>
    /\ PosOf(Session(tk.user)) # PosOf(tk.pre)
    /\ AnswersOf(Session(tk.user)) = AnswersOf(tk.pre)

\* C16: QuestionManager.GetNextQuestion resolves a label to the target of
\* the earliest option that carries it, and so does a button selection: at
\* a node where several options carry the selected label, the position
\* becomes the target of the earliest of them (and, the transport never
\* failing, the end of that target's auto-advance chain).
C16_FirstMatchWins ==
  /\ \A id \in DOMAIN questions : \A l \in Labels(questions) :
       LET q == questions[id]
           i == FirstLabelled(q, l)
       IN GetNextQuestion(questions, id, l) =
            IF i = 0 THEN [ok |-> FALSE]
            ELSE IF q.Options[i].NextID \in DOMAIN questions
                 THEN [ok |-> TRUE, q |-> questions[q.Options[i].NextID]]
                 ELSE [ok |-> FALSE]
  /\ \A t \in Tasks :
       LET tk == tasks[t]
           cur == questions[PosOf(tk.pre)]
           hits == {i \in 1..Len(cur.Options) : cur.Options[i].Text = tk.payload}
           first == CHOOSE i \in hits : \A j \in hits : i <= j
       IN
       (/\ CallbackAt(tk)
        /\ Cardinality(hits) > 1
        /\ cur.Options[first].Action # LocationAction
        /\ cur.Options[first].NextID \in DOMAIN questions)
       => /\ (tk.pc = "upd_body" /\ tk.out = <<>>) =>
               tk.next = cur.Options[first].NextID
          /\ (Done(tk) /\ reliable) =>
               PosOf(Session(tk.user)) = ChainEnd(cur.Options[first].NextID)

\* label "A" was selected at a node with options A -> name_q and A -> end
C16_Witness ==
  \E t \in Tasks :
    LET tk == tasks[t]
        cur == questions[PosOf(tk.pre)]
    IN
    /\ Done(tk) /\ reliable /\ CallbackAt(tk)
    /\ Len(cur.Options) > 1
    /\ cur.Options[1].Text = tk.payload
    /\ cur.Options[2].Text = tk.payload
    /\ cur.Options[1].NextID # cur.Options[2].NextID
    /\ cur.Options[2].NextID \in DOMAIN questions
    /\ PosOf(Session(tk.user)) = cur.Options[1].NextID

\* the emission of a location request to user u
LocationRequest(u) == [kind |-> "location", to |-> u, node |-> ""]

\* C17: selecting an option whose action is the location request records
\* the answer, emits the location request and nothing else, and leaves the
\* position where it was; the option's target is not looked up (the handler
\* returns no error when the target is not in the graph).
C17_LocationRequest ==
  \A t \in Tasks :
    LET tk == tasks[t]
        cur == questions[PosOf(tk.pre)]
        i == FirstLabelled(cur, tk.payload)
        now == Session(tk.user)
    IN
    (/\ Done(tk) /\ CallbackAt(tk)
     /\ i # 0
     /\ cur.Options[i].Action = LocationAction)
    => /\ AnswersOf(now) =
            WithAnswer(AnswersOf(tk.pre), GetDisplayText(cur), tk.payload)
       /\ PosOf(now) = PosOf(tk.pre)
       /\ Sent(tk) \in {<<>>, <<LocationRequest(tk.user)>>}
       /\ reliable => Sent(tk) = <<LocationRequest(tk.user)>>
       /\ Sent(tk) # <<>> => tk.err = ""

\* such an option, whose target is not in the graph, has been selected
C17_Witness ==
  \E t \in Tasks :
    LET tk == tasks[t]
        cur == questions[PosOf(tk.pre)]
        i == FirstLabelled(cur, tk.payload)
    IN
    /\ Done(tk) /\ CallbackAt(tk)
    /\ i # 0
    /\ cur.Options[i].Action = LocationAction
    /\ cur.Options[i].NextID \notin DOMAIN questions
    /\ tk.out = <<LocationRequest(tk.user)>>
    /\ tk.err = ""

\* what the handlers log when the transport refuses a send
SendErrors ==
  {"failed to send images", "failed to send messages",
   "failed to send text message", "failed to send location request"}

\* the answers a handler of an update leaves when it got as far as sending
AnswersAfter(tk) ==
  IF tk.kind = "command" THEN AnswersOf(tk.pre)
  ELSE WithAnswer(AnswersOf(tk.pre),
                  GetDisplayText(questions[PosOf(tk.pre)]), tk.payload)

\* C18: a send the transport refuses is the last thing its handler does:
\* nothing is sent or slept after it, the handler has returned the error,
\* the node whose emission failed has not been emitted in full, the position
\* is the one written before that emission began (the node itself; for a
\* location request, where it was) and the answers are the ones recorded
\* before it.
C18_SendFailureStops ==
  \A t \in Tasks :
    LET tk == tasks[t]
        now == Session(tk.user)
    IN
    \A i \in 1..Len(tk.out) :
      tk.out[i].kind = "fail"
      => LET n == tk.out[i].node IN
         /\ i = Len(tk.out)
         /\ Done(tk)
         /\ tk.err \in SendErrors
         /\ PosOf(now) = IF n = "" THEN PosOf(tk.pre) ELSE n
         /\ AnswersOf(now) = AnswersAfter(tk)
         /\ n # "" =>
              Cardinality({j \in 1..Len(Sent(tk)) : Sent(tk)[j].node = n})
                < SendsFor(questions[n])

\* the second message of the second node of a chain was refused, after the
\* node's image and first message had been sent
C18_Witness ==
  \E t \in Tasks :
    LET tk == tasks[t]
        last == tk.out[Len(tk.out)]
    IN
    /\ Done(tk)
    /\ tk.out # <<>>
    /\ last.kind = "fail" /\ last.node # ""
    /\ Len(EmittedNodes(tk)) > 1
    /\ Cardinality({j \in 1..Len(Sent(tk)) : Sent(tk)[j].node = last.node}) > 1
    /\ PosOf(Session(tk.user)) = last.node

\* the token sequence sub occurs in seq
Contains(seq, sub) ==
  \E i \in 0..(Len(seq) - Len(sub)) : SubSeq(seq, i + 1, i + Len(sub)) = sub

\* C19: in the linear graph start{Continue -> q1}, q1{"Q1", Yes -> end,
\* No -> end}, end{"Done"}: the start command leaves the position at start;
\* "Continue" selected at start leaves it at q1; "Yes" selected at q1 leaves
\* it at end with the answer "Yes" under the key "Q1" (q1's display text),
\* and the one emission for end is "Done" followed by the summary, which
\* has the line "Q1: Yes".
C19_LinearFlow ==
  (questions = LinearGraph /\ startID = "start") =>
  \A t \in Tasks :
    LET tk == tasks[t]
        now == Session(tk.user)
        sent == Sent(tk)
    IN
    /\ (Done(tk) /\ tk.kind = "command" /\ tk.payload = "start")
       => PosOf(now) = "start"
    /\ (/\ Done(tk) /\ tk.kind = "callback" /\ tk.payload = "Continue"
        /\ PosOf(tk.pre) = "start")
       => PosOf(now) = "q1"
    /\ (/\ tk.kind = "callback" /\ tk.payload = "Yes"
        /\ PosOf(tk.pre) = "q1")
       => /\ (tk.pc = "pq_text" \/ Done(tk)) =>
               /\ PosOf(now) = "end"
               /\ <<"Q1">> \in DOMAIN AnswersOf(now)
               /\ AnswersOf(now)[<<"Q1">>] = "Yes"
               /\ <<"q1">> \notin DOMAIN AnswersOf(now)
          /\ (Done(tk) /\ reliable) =>
               /\ Len(sent) = 1
               /\ sent[1].kind = "text" /\ sent[1].node = "end"
               /\ Len(sent[1].text) > 2
               /\ SubSeq(sent[1].text, 1, 2) = <<"Done", "\n\nYour answers:\n">>
               /\ Contains(sent[1].text, <<"* ", "Q1", ": ", "Yes", "\n">>)

\* the three updates have been handled in that order
C19_Witness ==
  \E t \in Tasks :
    LET tk == tasks[t] IN
    /\ questions = LinearGraph /\ startID = "start"
    /\ Done(tk) /\ reliable
    /\ tk.kind = "callback" /\ tk.payload = "Yes"
    /\ tk.pre = <<[CurrentQuestionID |-> "q1",
                   Answers |-> WithAnswer(<<>>, <<>>, "Continue"),
                   Name |-> "Ann"]>>
    /\ PosOf(Session(tk.user)) = "end"
    /\ Len(Sent(tk)) = 1

\* C20: the step in which AddAnswer(key, value) runs leaves the session's
\* answers with the keys they had and key, value under key, and every other
\* key's value as it was; recorded twice, a key has one entry, holding the
\* value recorded last.
C20_AnswerOverwrite ==
  [][\A t \in Tasks :
       (tasks[t].pc = "pa_write" /\ tasks'[t].pc # "pa_write")
       => LET tk == tasks[t]
              a == heap[tk.us].Answers
              b == heap'[tk.us].Answers
          IN
          /\ DOMAIN b = DOMAIN a \cup {tk.key}
          /\ b[tk.key] = tk.payload
          /\ \A k \in DOMAIN a \ {tk.key} : b[k] = a[k]
          /\ tk.key \in DOMAIN a =>
               Cardinality(DOMAIN b) = Cardinality(DOMAIN a)]_vars

\* a key recorded before with another value has been recorded again, next
\* to another key
C20_Witness ==
  \E t \in Tasks :
    LET tk == tasks[t]
        a == AnswersOf(tk.pre)
        b == AnswersOf(Session(tk.user))
    IN
    /\ Done(tk) /\ tk.kind = "answer"
    /\ Cardinality(DOMAIN a) = 2
    /\ DOMAIN b = DOMAIN a
    /\ \E k \in DOMAIN a :
         /\ b[k] = tk.payload /\ a[k] # tk.payload
         /\ \A o \in DOMAIN a \ {k} : b[o] = a[o]

\* the keyboard claim C21 gives a node: none for an autoAdvance node, else
\* the option rows in option order and then the link row when link and
\* label are both set (no row at all is no keyboard)
KeyboardOf(q) ==
  LET rows == [i \in 1..Len(q.Options) |->
                 <<[text |-> q.Options[i].Text, data |-> q.Options[i].Text]>>]
      link == << <<[text |-> q.ExternalText, url |-> q.ExternalLink]>> >>
  IN
  IF q.AutoAdvance THEN NoKeyboard
  ELSE IF q.ExternalLink = "" \/ q.ExternalText = "" THEN rows
  ELSE rows \o link

\* C21: every text emission carries the keyboard its node determines
\* (none for an autoAdvance node; else option rows, then the link row when
\* link and label are both set; none when there is no row), whoever the
\* user and whatever the session; of a node's message sequence only the last
\* message carries it.
C21_KeyboardOfNode ==
  \A t \in Tasks :
    LET out == tasks[t].out IN
    \A i \in 1..Len(out) :
      out[i].kind = "text"
      => LET q == questions[out[i].node]
             k == Cardinality({j \in 1..i : /\ out[j].kind = "text"
                                            /\ out[j].node = out[i].node})
         IN
         /\ out[i].keyboard =
              IF Len(q.Messages) > 0 /\ k < Len(q.Messages)
              THEN NoKeyboard ELSE KeyboardOf(q)
         /\ q.AutoAdvance => out[i].keyboard = NoKeyboard

\* a node without options whose link and label are set has been emitted
\* with the link row alone
C21_Witness ==
  \E t \in Tasks :
    LET out == tasks[t].out IN
    \E i \in 1..Len(out) :
      /\ out[i].kind = "text"
      /\ Len(questions[out[i].node].Options) = 0
      /\ out[i].keyboard = << <<[text |-> "Site", url |-> "http://x"]>> >>

\* a handler in an auto-advance delay or in a send (the delay after a send
\* included)
Waiting(tk) == tk.pc \in {"aa_sleep", "pq_img", "pq_msg", "pq_text", "loc_send"}

\* the steps a handler takes with the store's write lock held
InStore(tk) == tk.pc \in {"goc_body", "set_body", "upd_body"}

\* C22: a handler holds the store's lock only inside a store operation, so
\* not while it sleeps or sends; while a handler waits, every other running
\* handler can take its next step and the ingestion loop can start a handler
\* for the next update (as long as the model's bounds leave room for one).
C22_WaitBlocksNobody ==
  /\ \A t \in Tasks :
       /\ mu.w = t <=> InStore(tasks[t])
       /\ t \notin mu.r
  /\ \A t \in Tasks :
       Waiting(tasks[t])
       => /\ \A o \in Tasks \ {t} : Active(tasks[o]) => ENABLED Step(o)
          /\ (/\ \E o \in Tasks : ~Active(tasks[o])
              /\ nEvents < MaxEvents /\ nOverlap < MaxOverlap)
             => ENABLED (\E o \in Tasks : IngestSerial(o))

\* while a handler sits in the auto-advance delay after its first emission,
\* a handler of another user, started later, has run to completion
C22_Witness ==
  /\ tasks[1].pc = "aa_sleep"
  /\ Len(Sent(tasks[1])) = 1
  /\ Done(tasks[2])
  /\ tasks[2].user # tasks[1].user
  /\ Sent(tasks[2]) # <<>>
  /\ Session(tasks[2].user) # tasks[2].pre

\* C23: no writer (SetUserState, UpdateCurrentQuestion,
\* GetOrCreateUserState between Lock and Unlock) overlaps another writer or
\* a reader (GetUserState between RLock and RUnlock), while readers may
\* overlap readers; so what a writer read from the map when it took the lock
\* is still what the map holds when it writes, and a reader finds no writer
\* at work, whichever users the calls are for.
C23_StoreOpsAtomic ==
  /\ mu.w # 0 => mu.r = {}
  /\ Cardinality({t \in Tasks : InStore(tasks[t])}) <= 1
  /\ \A t \in Tasks :
       /\ mu.w = t <=> InStore(tasks[t])
       /\ t \in mu.r <=> tasks[t].pc = "get_read"
       /\ tasks[t].pc \in {"goc_body", "upd_body"} =>
            tasks[t].found = states[tasks[t].user]
       /\ (Done(tasks[t]) /\ tasks[t].kind = "get" /\ tasks[t].found # 0) =>
            tasks[t].found \in DOMAIN heap

\* two GetUserState calls for one user, who has a session, overlap
C23_Witness ==
  /\ mu.r = {1, 2}
  /\ tasks[1].user = tasks[2].user
  /\ states[tasks[1].user] # 0

\* ---------------------------------------------------------------- C24
\* C24: no inbound event, in any session state and with any graph, crashes
\* the process: every traversal error ends in the handler that received the
\* event, which logs it and returns; the process keeps serving whatever the
\* events and their interleaving.  (That no handler changes another user's
\* session is C11's invariant.)
C24_EventsNeverCrash ==
  \A t \in Tasks : tasks[t].pc # "fatal"

\* ---------------------------------------------------------------- C25
\* C25: once a session exists for a user it exists in every later state (no
\* step of any handler removes it from the store), and its display name
\* stays the one given at creation whatever names later events carry.
C25_SessionKept ==
  [][\A u \in Users :
       states[u] # 0
       => /\ states'[u] # 0
          /\ states'[u] \in DOMAIN heap'
          /\ heap'[states'[u]].Name = heap[states[u]].Name]_vars

\* a /start and a text carrying the name "Bob" have both been handled for a
\* user whose session had been created as "Ann", and it is still "Ann"
C25_Witness ==
  \E u \in Users :
    /\ Session(u) # <<>> /\ Session(u)[1].Name = "Ann"
    /\ \A t \in Tasks :
         /\ Done(tasks[t]) /\ tasks[t].user = u /\ tasks[t].pre # <<>>
         /\ tasks[t].pre[1].Name = "Ann"
    /\ tasks[1].kind = "command" /\ tasks[1].payload = "start"
    /\ tasks[2].kind = "text" /\ tasks[2].payload = "B"

\* ---------------------------------------------------------------- C26
\* the IDs looked up: those of every graph, and some of none
ProbeIDs == NodeIDs \cup {"ghost", "nowhere", "", TornID}

\* C26: GetQuestion(id) returns the node stored at construction for every
\* id of the graph and a not-found error, and no node, for every other id;
\* no step of any handler changes the graph, so the result for an id is the
\* same before and after every step.
C26_LookupStable ==
  [][/\ questions' = questions
     /\ \A id \in ProbeIDs :
          LET r == GetQuestion(questions', id) IN
          /\ r = GetQuestion(questions, id)
          /\ IF id \in DOMAIN questions
             THEN r.ok /\ r.q = questions[id] /\ r.q.ID = id
             ELSE ~r.ok /\ DOMAIN r = {"ok"}]_vars

\* a sequence of events has been handled: earlier ones moved the session to
\* a node that was looked up and emitted, and the last one's lookup of a node
\* that is not in the graph failed
C26_Witness ==
  \E t \in Tasks :
    LET tk == tasks[t] IN
    /\ Done(tk) /\ tk.err = "failed to get next question"
    /\ PosOf(tk.pre) \in DOMAIN questions \ {startID}
    /\ ~GetQuestion(questions, "ghost").ok

\* ---------------------------------------------------------------- C29
\* C29: every write to a session's position or answers made while handling
\* an event happens inside a store operation, with the store's exclusive
\* lock held by the handler that writes: no step changes a session field
\* while the lock is free.
C29_WritesUnderLock ==
  [][\A p \in DOMAIN heap :
       (\/ heap'[p].CurrentQuestionID # heap[p].CurrentQuestionID
        \/ heap'[p].Answers # heap[p].Answers)
       => /\ mu.w # 0
          /\ InStore(tasks[mu.w])
          /\ tasks'[mu.w] # tasks[mu.w]]_vars

\* ---------------------------------------------------------------- C30
\* the node a selection of tk's label at the node tk found leads to
TargetOf(tk) ==
  LET cur == questions[PosOf(tk.pre)] IN
  cur.Options[FirstLabelled(cur, tk.payload)].NextID

\* a callback whose label matches an option of the node its user stood at
\* when it arrived, leading to a node with content
Matching(tk) ==
  /\ CallbackAt(tk)
  /\ FirstLabelled(questions[PosOf(tk.pre)], tk.payload) # 0
  /\ questions[PosOf(tk.pre)].Options[
       FirstLabelled(questions[PosOf(tk.pre)], tk.payload)].Action
         # LocationAction
  /\ TargetOf(tk) \in DOMAIN questions
  /\ HasContent(questions[TargetOf(tk)])

\* both handlers have returned after resolving the same label against the
\* same node: each one's first emission is the target's
BothTransitioned(t1, t2) ==
  /\ t1 # t2 /\ reliable
  /\ \A t \in {t1, t2} :
       /\ Done(tasks[t]) /\ tasks[t].err = "" /\ Matching(tasks[t])
       /\ EmittedNodes(tasks[t]) # <<>>
       /\ EmittedNodes(tasks[t])[1] = TargetOf(tasks[t])
  /\ tasks[t1].user = tasks[t2].user
  /\ tasks[t1].payload = tasks[t2].payload
  /\ tasks[t1].pre = tasks[t2].pre

\* C30: no per-user serialization exists: while a callback of a user is
\* being handled, between the resolution of its label and the write of the
\* new position, a second callback of that user with the same label can be
\* taken in and handled concurrently.  When both have been resolved against
\* the same node, both transition and each emits the next node's content (so
\* it is emitted twice), and the store stays consistent: one session for the
\* user, its position the next node (the end of its auto-advance chain).
C30_NoPerUserSerialization ==
  /\ \A t \in Tasks :
       LET tk == tasks[t] IN
       (/\ tk.kind = "callback"
        /\ tk.pc \in {"poa_read", "pa_get", "pa_read", "pa_write", "upd_lock"}
        /\ tk.out = <<>>
        /\ \E o \in Tasks : ~Active(tasks[o])
        /\ nEvents < MaxEvents /\ nOverlap < MaxOverlap)
       => ENABLED (\E o \in Tasks :
                     /\ Ingest(o)
                     /\ tasks'[o].user = tk.user
                     /\ tasks'[o].kind = "callback"
                     /\ tasks'[o].payload = tk.payload)
  /\ \A t1, t2 \in Tasks :
       BothTransitioned(t1, t2)
       => LET u == tasks[t1].user
              m == TargetOf(tasks[t1])
          IN
          /\ EmittedNodes(tasks[t1]) = ChainContent(m)
          /\ EmittedNodes(tasks[t2]) = ChainContent(m)
          /\ states[u] # 0
          /\ Len(heap) = Cardinality({v \in Users : states[v] # 0})
          /\ PosOf(Session(u)) = ChainEnd(m)

\* two callbacks "A" of one user, both arrived while the user stood at
\* start, have both been handled and both have emitted the content of name_q
C30_Witness ==
  /\ BothTransitioned(1, 2)
  /\ PosOf(tasks[1].pre) = "start" /\ tasks[1].payload = "A"
  /\ EmittedNodes(tasks[1]) = <<"name_q">>
  /\ EmittedNodes(tasks[2]) = <<"name_q">>
  /\ PosOf(Session(tasks[1].user)) = "name_q"

\* ---------------------------------------------------------------- C27
\* the list LoadQuestions was given, when the file it was pointed at decodes
\* to one
LoadedList == boot.disk[boot.path].list

IDsOf(list) == {list[i].ID : i \in 1..Len(list)}

Dangling(list) ==
  \E i \in 1..Len(list) : \E j \in 1..Len(list[i].Options) :
    list[i].Options[j].NextID \notin IDsOf(list)

\* C27: LoadQuestions returns an error and no graph (and the process ends
\* before it serves anything) for an empty list, for a list holding a record
\* with an empty ID and for a list holding two records with the same ID;
\* every other list is accepted, each record stored under its ID, also when
\* some option's NextID names no record: a dangling reference then shows up
\* only as a lookup failure of the handler that follows it.
C27_LoaderValidation ==
  (/\ boot.path \in DOMAIN boot.disk
   /\ boot.disk[boot.path].kind = "json")
  => IF \/ LoadedList = <<>>
        \/ "" \in IDsOf(LoadedList)
        \/ \E i, j \in 1..Len(LoadedList) :
             i # j /\ LoadedList[i].ID = LoadedList[j].ID
     THEN /\ boot.phase = "fatal"
          /\ boot.err \in {"no questions found", "question has empty ID",
                            "duplicate question ID"}
          /\ questions = <<>>
          /\ \A t \in Tasks : tasks[t] = IdleTask
     ELSE /\ boot.phase = "up"
          /\ DOMAIN questions = IDsOf(LoadedList)
          /\ \A i \in 1..Len(LoadedList) :
               questions[LoadedList[i].ID] = LoadedList[i]
          /\ \A t \in Tasks :
               (Done(tasks[t]) /\ tasks[t].err = "failed to get next question")
               => Dangling(LoadedList)

\* a list with a dangling reference was loaded, and a handler that followed
\* the reference has logged the failed lookup and returned
C27_Witness ==
  /\ boot.phase = "up" /\ boot.path \in DOMAIN boot.disk
  /\ Dangling(LoadedList)
  /\ \E t \in Tasks :
       /\ Done(tasks[t]) /\ tasks[t].err = "failed to get next question"
       /\ tasks[t].kind = "callback"

\* ---------------------------------------------------------------- C28
\* C28: the questions file path comes from the QUESTIONS_FILE_PATH
\* environment variable and defaults to configs/questions.json when the
\* variable is unset, and that path is the one the question graph is loaded
\* from at startup: once the configuration has been read, LoadQuestions is
\* given that path, and the graph served is the one in that file.
C28_PathFromEnvironment ==
  LET path == IF boot.env.QUESTIONS_FILE_PATH = "" THEN DefaultQuestionsPath
              ELSE boot.env.QUESTIONS_FILE_PATH
  IN
  (boot.phase # "off" /\ boot.main # "" /\ boot.env.TELEGRAM_TOKEN # "")
  => /\ boot.path = path
     /\ boot.phase = "up" => questions = MapOf(boot.disk[path].list)

\* ---------------------------------------------------------------- C31
\* a handler inside an auto-advance chain: in the delay, or between the
\* delay and the emission of the next node
InChain(tk) ==
  \/ tk.pc = "aa_sleep"
  \/ tk.pc \in {"upd_lock", "upd_body", "pq_get"} /\ tk.out # <<>>

\* another event of the chain's user, a start command or a button selection,
\* has been handled to its end while the chain's handler was running
Interrupted(t) ==
  /\ InChain(tasks[t])
  /\ \E o \in Tasks \ {t} :
       /\ Done(tasks[o]) /\ tasks[o].user = tasks[t].user
       /\ tasks[o].err = "" /\ Sent(tasks[o]) # <<>>
       /\ \/ tasks[o].kind = "command" /\ tasks[o].payload = "start"
          \/ tasks[o].kind = "callback"

\* C31: an auto-advance chain is never cancelled by other events of its
\* user: when a start command or a button selection of that user has been
\* handled while the chain was in its delay, the chain's handler still
\* takes its next step: it looks up the first option's target, writes it as
\* the position over whatever the other event left, and goes on to emit it.
C31_ChainNotCancelled ==
  [][\A t \in Tasks :
       LET tk == tasks[t]
           q == questions[tk.q]
       IN
       (Interrupted(t) /\ tasks'[t] # tk)
       => /\ (/\ tk.pc = "aa_sleep" /\ Len(q.Options) > 0
               /\ q.Options[1].NextID \in DOMAIN questions)
              => /\ tasks'[t].pc = "upd_lock"
                 /\ tasks'[t].next = q.Options[1].NextID
          /\ tk.pc = "upd_lock" => tasks'[t].pc = "upd_body"
          /\ tk.pc = "upd_body"
              => /\ PosOf(Session(tk.user))' = tk.next
                 /\ tasks'[t].pc = "pq_get" /\ tasks'[t].q = tk.next
          /\ (tk.pc = "pq_get" /\ reliable /\ HasContent(questions[tk.q]))
              => \/ tasks'[t].pc \in {"pq_img", "pq_msg", "pq_text"}
                 \/ /\ Sent(tasks'[t]) # <<>>
                    /\ Sent(tasks'[t])[Len(Sent(tasks'[t]))].node = tk.q]_vars

\* while a chain's handler was in its delay a start command of the same user
\* was handled and left the position elsewhere; the chain has then written
\* its own next node over it
C31_Witness ==
  \E t \in Tasks :
    LET tk == tasks[t] IN
    /\ Interrupted(t) /\ tk.pc = "pq_get"
    /\ PosOf(Session(tk.user)) = tk.q
    /\ \E o \in Tasks \ {t} :
         /\ Done(tasks[o]) /\ tasks[o].user = tk.user
         /\ tasks[o].kind = "command" /\ tasks[o].payload = "start"
         /\ EmittedNodes(tasks[o]) # <<>>
         /\ EmittedNodes(tasks[o])[Len(EmittedNodes(tasks[o]))] # tk.q

\* ---------------------------------------------------------------- C32
\* the nodes on a cycle of autoAdvance nodes along first-option edges
CycleNodes ==
  {n \in DOMAIN questions :
     /\ FollowFrom(n) = "<cycle>"
     /\ \E k \in 1..Cardinality(DOMAIN questions) :
          Chain(questions, n, k + 1)[k + 1] = n}

\* the handler has emitted content of a node on the cycle
EnteredCycle(tk) ==
  \E i \in 1..Len(Sent(tk)) : Sent(tk)[i].node \in CycleNodes

\* C32: with a cycle of autoAdvance nodes along first-option edges and a
\* transport that never fails, a handler that has entered the cycle never
\* returns: from the delay at a node of the cycle it always gets to the delay
\* at the next node, having written that node as the position and emitted
\* its content (for as long as its log is followed); meanwhile a handler of
\* an event that does not enter the cycle still returns.
C32_CycleNeverEnds ==
  /\ [](\A t \in Tasks :
         (reliable /\ EnteredCycle(tasks[t])) => ~Done(tasks[t]))
  /\ \A t \in Tasks : \A n \in {"start", "tock"} :
       (/\ reliable /\ tasks[t].pc = "aa_sleep" /\ tasks[t].q = n
        /\ Len(tasks[t].out) + 4 <= MaxLog)
       ~> (/\ tasks[t].pc = "aa_sleep"
           /\ tasks[t].q = CycleGraph[n].Options[1].NextID
           /\ PosOf(Session(tasks[t].user)) = tasks[t].q
           /\ Sent(tasks[t])[Len(Sent(tasks[t]))].node = tasks[t].q)
  /\ \A t \in Tasks :
       (/\ Active(tasks[t])
        /\ \/ tasks[t].kind = "text"
           \/ tasks[t].kind = "command" /\ tasks[t].payload # "start"
           \/ tasks[t].kind = "callback" /\ tasks[t].payload = "Maybe")
       ~> Done(tasks[t])

\* a handler has gone round the cycle (it is emitting start for the second
\* time) while a handler of another user, started after it, has returned
C32_Witness ==
  \E t \in Tasks, o \in Tasks :
    /\ reliable /\ tasks[t].pc = "aa_sleep" /\ tasks[t].q = "start"
    /\ EmittedNodes(tasks[t]) = <<"start", "tock", "start">>
    /\ PosOf(Session(tasks[t].user)) = "start"
    /\ Done(tasks[o]) /\ tasks[o].user # tasks[t].user
    /\ tasks[o].kind = "text"

\* ---------------------------------------------------------------- C33
\* which message of its node the i-th entry of a log is: the number of text
\* entries for that node up to it
MsgIndex(out, i) ==
  Cardinality({j \in 1..i : out[j].kind = "text" /\ out[j].node = out[i].node})

\* C33: for a node with a non-empty Messages list the messages go out in
\* list order (the name placeholder filled in), the keyboard is attached to
\* the last one only, and a delay follows every message except the last one
\* (after the last one only the delay of an auto-advance can follow).
C33_MessageSequence ==
  \A t \in Tasks :
    LET tk == tasks[t]
        out == tk.out
    IN
    \A i \in 1..Len(out) :
      (out[i].kind = "text" /\ Len(questions[out[i].node].Messages) > 0)
      => LET q == questions[out[i].node]
             n == Len(q.Messages)
             m == MsgIndex(out, i)
         IN
         /\ m <= n
         /\ m <= n => /\ states[tk.user] # 0
                      /\ out[i].text =
                           replaceNamePlaceholder(q.Messages[m],
                                                  Session(tk.user)[1].Name)
         /\ out[i].keyboard = IF m = n THEN KeyboardOf(q) ELSE NoKeyboard
         /\ m > 1 => /\ i > 2
                     /\ out[i - 1].kind = "sleep"
                     /\ out[i - 2].kind = "text"
                     /\ out[i - 2].node = out[i].node
         /\ m < n => /\ i < Len(out)
                     /\ out[i + 1].kind = "sleep"
         /\ (m = n /\ i < Len(out) /\ out[i + 1].kind = "sleep")
            => /\ q.AutoAdvance
               /\ out[i + 1].ms = AutoAdvanceDelay(q)

\* the two messages of note_q have been sent: the first without a keyboard
\* and followed by a delay, the second with the keyboard and nothing after
C33_Witness ==
  \E t \in Tasks :
    LET tk == tasks[t] IN
    /\ Done(tk) /\ Len(tk.out) = 3
    /\ tk.out[1].kind = "text" /\ tk.out[1].node = "note_q"
    /\ tk.out[1].keyboard = NoKeyboard
    /\ tk.out[2].kind = "sleep"
    /\ tk.out[3].kind = "text" /\ tk.out[3].node = "note_q"
    /\ tk.out[3].text = <<"Note?">>
    /\ tk.out[3].keyboard # NoKeyboard

\* ---------------------------------------------------------------- C34
\* C34: the delay between successive messages of a node's Messages list is
\* the node's own DelayMs when the node sets one (0 included) and the global
\* default otherwise.
C34_PerNodeMessageDelay ==
  \A t \in Tasks :
    LET out == tasks[t].out IN
    \A i \in 2..Len(out) :
      (/\ out[i].kind = "sleep" /\ out[i - 1].kind = "text"
       /\ MsgIndex(out, i - 1) < Len(questions[out[i - 1].node].Messages))
      => LET q == questions[out[i - 1].node] IN
         out[i].ms = IF q.DelayMs # <<>> THEN q.DelayMs[1] ELSE DefaultDelayMs

\* ---------------------------------------------------------------- C35
\* what a log holds for node n: the SendImages call and the texts
NodeLog(out, n) ==
  SelectSeq(out, LAMBDA e : e.kind \in {"images", "text"} /\ e.node = n)

TextsOf(log) == SelectSeq(log, LAMBDA e : e.kind = "text")

\* C35: emitting a node sends the images first, when it has any, and then
\* exactly one of: the Messages list when it is non-empty (Text is then not
\* sent and no summary is appended, on the terminal node too), else Text as
\* one message when it is non-empty, else no text; a node with neither
\* produces no text message and no send error.
C35_ContentEmission ==
  \A t \in Tasks :
    LET tk == tasks[t] IN
    /\ \A n \in DOMAIN questions :
         LET q == questions[n]
             log == NodeLog(tk.out, n)
             txt == TextsOf(log)
         IN
         log # <<>> =>
           /\ states[tk.user] # 0
           /\ \A k \in 1..Len(log) :
                log[k].kind = "images" => k = 1 /\ Len(q.Images) > 0
           /\ Len(q.Images) > 0 => log[1].kind = "images"
           /\ IF Len(q.Messages) > 0
              THEN /\ Len(txt) <= Len(q.Messages)
                   /\ \A k \in 1..Len(txt) :
                        k <= Len(q.Messages) =>
                          txt[k].text =
                            replaceNamePlaceholder(q.Messages[k],
                                                   Session(tk.user)[1].Name)
              ELSE IF q.Text # <<>>
              THEN /\ Len(txt) <= 1
                   /\ \A k \in 1..Len(txt) :
                        /\ Len(txt[k].text) >= Len(q.Text)
                        /\ SubSeq(txt[k].text, 1, Len(q.Text)) =
                             replaceNamePlaceholder(q.Text,
                                                    Session(tk.user)[1].Name)
                        /\ n # FinalQuestionID =>
                             Len(txt[k].text) = Len(q.Text)
              ELSE txt = <<>>
    /\ (Done(tk) /\ tk.err \in {"failed to send text message",
                                 "failed to send messages"})
       => LET last == tk.out[Len(tk.out)]
              q == questions[last.node]
          IN
          /\ last.kind = "fail"
          /\ IF tk.err = "failed to send messages"
             THEN Len(q.Messages) > 0
             ELSE Len(q.Messages) = 0 /\ q.Text # <<>>

\* the terminal node of the auto graph has a text and a message sequence:
\* with an answer recorded, the one message sent for it is the sequence's
C35_Witness ==
  \E t \in Tasks :
    LET tk == tasks[t] IN
    /\ Done(tk) /\ tk.err = ""
    /\ tk.kind = "callback" /\ tk.payload = "End"
    /\ AnswersOf(Session(tk.user)) # <<>>
    /\ questions[FinalQuestionID].Text # <<>>
    /\ Len(tk.out) = 1
    /\ tk.out[1].kind = "text" /\ tk.out[1].node = FinalQuestionID
    /\ tk.out[1].text = <<"Bye ", Session(tk.user)[1].Name>>

\* ---------------------------------------------------------------- C36
\* C36: in every reachable state each stored session's position is empty or
\* the ID of a node of the graph (with dangling edges, a missing start node,
\* failing sends, and concurrent events of one user).
C36_PositionIsNode ==
  \A u \in Users :
    states[u] # 0 =>
      heap[states[u]].CurrentQuestionID \in {""} \cup DOMAIN questions

\* ---------------------------------------------------------------- C37
\* a log entry that is content of a node, sent or refused
IsContent(e) == e.kind \in {"images", "text", "fail"} /\ e.node # ""

\* C37: on every transition the position is written to the new node before
\* any of that node's content is emitted (a step that emits content of a
\* node starts in a state whose position is that node), so after an emission
\* that fails the position names the node whose content was not delivered.
C37_PositionBeforeContent ==
  [][\A t \in Tasks :
       LET tk == tasks[t]
           out == tasks'[t].out
       IN
       /\ \A i \in (Len(tk.out) + 1)..Len(out) :
            (tasks'[t].user = tk.user /\ IsContent(out[i]))
            => /\ states[tk.user] # 0
               /\ heap[states[tk.user]].CurrentQuestionID = out[i].node
       /\ (/\ Done(tasks'[t]) /\ out # <<>>
           /\ out[Len(out)].kind = "fail" /\ out[Len(out)].node # "")
          => /\ states'[tk.user] # 0
             /\ heap'[states'[tk.user]].CurrentQuestionID =
                  out[Len(out)].node]_vars

\* a selection moved the session to a node whose first send was refused: the
\* handler has ended with the error and the position is that node, not the
\* one the selection was made at
C37_Witness ==
  \E t \in Tasks :
    LET tk == tasks[t] IN
    /\ Done(tk) /\ tk.kind = "callback"
    /\ tk.err \in {"failed to send text message", "failed to send messages",
                   "failed to send images"}
    /\ Len(tk.out) = 1 /\ tk.out[1].kind = "fail"
    /\ tk.out[1].node # PosOf(tk.pre)
    /\ PosOf(Session(tk.user)) = tk.out[1].node

\* ---------------------------------------------------------------- C38
\* C38: the start command changes only the position: the answers (and the
\* name) of the session stay as they were, and a terminal summary lists the
\* session's answers, those of an earlier pass included unless the event
\* itself overwrote them.
C38_StartKeepsAnswers ==
  \A t \in Tasks :
    LET tk == tasks[t]
        now == Session(tk.user)
    IN
    /\ (/\ tk.kind = "command" /\ tk.payload = "start"
        /\ tk.pre # <<>> /\ tk.pc \notin {"idle", "goc_lock", "goc_body"})
       => /\ now # <<>>
          /\ AnswersOf(now) = AnswersOf(tk.pre)
          /\ now[1].Name = tk.pre[1].Name
    /\ (/\ Done(tk) /\ tk.err = "" /\ tk.out # <<>> /\ tk.pre # <<>>
        /\ tk.out[Len(tk.out)].kind = "text"
        /\ tk.out[Len(tk.out)].node = FinalQuestionID)
       => /\ tk.out[Len(tk.out)].text \in
               {replaceNamePlaceholder(questions[FinalQuestionID].Text,
                                       now[1].Name) \o summary :
                  summary \in generateAnswersSummary(AnswersOf(now))}
          /\ \A k \in DOMAIN AnswersOf(tk.pre) :
               /\ k \in DOMAIN AnswersOf(now)
               /\ k # GetDisplayText(questions[PosOf(tk.pre)])
                  => AnswersOf(now)[k] = AnswersOf(tk.pre)[k]

\* a user who had answered the text question started again and went from
\* start to the terminal node at once: the summary still has the note of
\* the first pass
C38_Witness ==
  \E t \in Tasks :
    LET tk == tasks[t]
        last == tk.out[Len(tk.out)]
    IN
    /\ questions = RestartGraph
    /\ Done(tk) /\ tk.kind = "callback" /\ tk.payload = "Skip"
    /\ PosOf(tk.pre) = startID
    /\ <<"Note?">> \in DOMAIN AnswersOf(tk.pre)
    /\ tk.out # <<>> /\ last.kind = "text" /\ last.node = FinalQuestionID
    /\ \E i \in 1..Len(last.text) :
         last.text[i] = AnswersOf(tk.pre)[<<"Note?">>]

\* ---------------------------------------------------------------- C39
\* C39: an auto-advance step changes only the position: no step of a handler
\* inside an auto-advance chain adds or changes an answer, and an answer is
\* only ever written by the handler of a button selection or of a free
\* text, before it leaves the node the user answered.
C39_AutoAdvanceKeepsAnswers ==
  [][/\ Len(heap') >= Len(heap)
     /\ \A p \in DOMAIN heap :
          p \in DOMAIN heap' /\ heap'[p].Answers # heap[p].Answers
          => \E t \in Tasks :
               /\ tasks[t].pc = "pa_write" /\ tasks'[t].pc # "pa_write"
               /\ tasks[t].us = p
               /\ tasks[t].kind \in {"callback", "text"}
               /\ ~InChain(tasks[t]) /\ tasks[t].out = <<>>
     /\ \A t \in Tasks :
          (InChain(tasks[t]) /\ tasks'[t] # tasks[t])
          => \A p \in DOMAIN heap :
               p \in DOMAIN heap' /\ heap'[p].Answers = heap[p].Answers]_vars

\* a button selection led into an auto-advance chain that ran on: the
\* session has the answer to the node of the selection and none for the
\* auto-advance node passed on the way
C39_Witness ==
  \E t \in Tasks :
    LET tk == tasks[t]
        now == Session(tk.user)
    IN
    /\ Done(tk) /\ tk.kind = "callback" /\ tk.err = ""
    /\ tk.pre # <<>> /\ PosOf(tk.pre) \in DOMAIN questions
    /\ Len(EmittedNodes(tk)) >= 2
    /\ questions[EmittedNodes(tk)[1]].AutoAdvance
    /\ PosOf(now) = EmittedNodes(tk)[Len(EmittedNodes(tk))]
    /\ AnswersOf(now) =
         WithAnswer(AnswersOf(tk.pre),
                    GetDisplayText(questions[PosOf(tk.pre)]), tk.payload)
    /\ GetDisplayText(questions[EmittedNodes(tk)[1]])
         \notin DOMAIN AnswersOf(now)
====
